---- MODULE Spec2Model ----
(***************************************************************************)
(* Custodial accounting core of dice_backend/src/defi_accounting.          *)
(*                                                                         *)
(* The canister is single threaded.  A method runs in turns: from its      *)
(* start to its first `.await` on a ledger call, and from each ledger      *)
(* answer to the next `.await` or to its return.  One action of this       *)
(* module is one such turn (or one step of the external ledger).  A turn   *)
(* that panics traps: every change the turn made is discarded, the call    *)
(* ends, and what earlier turns committed stays.                           *)
(*                                                                         *)
(* Strings are modelled by their length in bytes (0: no string).           *)
(***************************************************************************)
EXTENDS Integers, Sequences, FiniteSets, TLC

\* ---------------------------------------------------------------- constants
ICP_TRANSFER_FEE == 10000
MIN_DEPOSIT == 10000000
MIN_WITHDRAW == 10000000
MAX_RETRIES == 10
BATCH_SIZE == 50
\* liquidity_pool.rs
MINIMUM_LIQUIDITY == 1000
LP_MIN_DEPOSIT == 100000000
MIN_WITHDRAWAL == 100000
RECONCILIATION_THRESHOLD == 10000000
\* MAX_RECONCILIATION_PERCENTAGE is 0.10: one part in this many
RECONCILIATION_PARTS == 10
\* the fee transfer_to_user sets on its transfers
TRANSFER_TO_USER_FEE == 10000
\* Storable::BOUND max_size of PendingWithdrawal and of AuditEntry
PENDING_MAX_SIZE == 1024
\* tests/test_serialization.rs: the length sanitize_error cuts a text to
SANITIZED_LEN == 256
AUDIT_MAX_SIZE == 2048

\* ------------------------------------------------------------------- bounds
MaxTasks == 2
MaxDeposits == 2
MaxWithdraws == 2
MaxLpDeposits == 1
MaxLpWithdraws == 1
\* deposits of the provider of a pool with games
MaxHouseDeposits == 2
\* a deposit is followed while the shares outstanding are fewer than this many
\* per e8s of reserve: beyond it the shares minted leave the integers of the
\* checker
MaxShareRatio == 4
\* settlements the game logic may make against the pool
MaxSettles == 2
\* reconcile_floating_funds invocations the heartbeat starts
MaxSweeps == 2
\* get_audit_log: the largest limit asked for
MaxLimit == 3
\* operations that may hold or ask for an OperationGuard at one time
MaxGuards == 3

\* casino_main/src/lib.rs.  Its amounts are in units of 1_000_000 e8s here:
\* MAX_WITHDRAWAL and MAX_BET in e8s are beyond the integers of the checker.
CASINO_MIN_DEPOSIT == 100
CASINO_MIN_WITHDRAWAL == 100
MAX_WITHDRAWAL == 100000
MIN_BET == 100
MAX_BET == 10000

\* ConcurrentGameModel::start_game: the smallest bet
GAME_MIN_BET == 10000

\* ConcurrentGameModel: games started in one run
MaxGames == 3

\* AccountingModel (dice_backend .. tests/stress_tests/model.rs); its
\* MINIMUM_LIQUIDITY is the 1000 of liquidity_pool.rs
MODEL_MIN_BET == 10000
LP_WITHDRAWAL_FEE_BPS == 100

\* AccountingModel: operations executed in one run
MaxOps == 4

\* casino_main: suspended calls at one time, and calls a principal may start
MaxCasinoTasks == 2
MaxCasinoDeposits == 2
MaxCasinoWithdraws == 2
MaxPlays == 2
\* lengths of the error texts the canister formats from the ledger's answers:
\* a text that fits every record, and one that fits none
TextShort == 48
TextLong == 3000
\* a reject text longer than sanitize_error lets through that fits the records
TextMid == 300

Users == {"u1", "u2"}
\* Principal::anonymous(), holder of the burned shares
Anonymous == "anonymous"
\* PARENT_STAKER_CANISTER
ParentStaker == "parent"
\* Who starts calls and settlements: the principals, the game logic of the
\* canister and its heartbeat
GameLogic == "games"
Heartbeat == "heartbeat"
Callers == Users \cup {Anonymous, GameLogic, Heartbeat}

\* A caller that may start nothing
NoCalls == [deposit |-> 0, withdraw |-> 0, lp_deposit |-> 0, lp_withdraw |-> 0,
            settle |-> 0, sweep |-> 0]

\* StableBTreeMap iterates in key order
UserOrder == <<"u1", "u2">>
DepositAmounts == {MIN_DEPOSIT \div 2, MIN_DEPOSIT + ICP_TRANSFER_FEE}
LpDepositAmounts == {LP_MIN_DEPOSIT \div 2, LP_MIN_DEPOSIT, 3 * LP_MIN_DEPOSIT}
TextLens == {TextShort, TextLong}
\* what the game logic hands to update_pool_on_loss and update_pool_on_win: a
\* bet of 0.01 ICP; a payout of that size, and one of an e8s more than the
\* reserve holds
\* liquidity deposits whose 1% fee stays below RECONCILIATION_THRESHOLD and
\* reaches it
SweepDepositAmounts == {LP_MIN_DEPOSIT, 10 * LP_MIN_DEPOSIT}
LostBets == {1000000}
WinPayouts(reserve) == {1000000, reserve + 1}

RejectionCodes == {"SysFatal", "SysTransient", "DestinationInvalid",
                   "CanisterReject", "CanisterError", "Unknown"}
\* ic_ledger_types::TransferError
LedgerErrors == {"BadFee", "InsufficientFunds", "TxTooOld",
                 "TxCreatedInFuture", "TxDuplicate"}

VARIABLES
    balances,       \* USER_BALANCES_STABLE
    pending,        \* PENDING_WITHDRAWALS
    auditLog,       \* WITHDRAWAL_AUDIT_LOG
    processing,     \* PROCESSING
    now,            \* ic_cdk::api::time(): what the next read returns
    ledgerBalance,  \* the custodian's account on the external ledger
    ledgerTxs,      \* the transfers with a created_at_time the ledger executed, in order
    lpShares,       \* LP_SHARES
    poolReserve,    \* POOL_STATE.reserve
    pendingFees,    \* POOL_STATE.pending_fees_to_parent
    tasks,          \* method invocations suspended at a ledger call
    quota,          \* calls each principal may still start
    initiated,      \* history: the withdrawals initiated so far, in order
    credited        \* history: what deposit has credited to each principal

\* accounting.rs: the custodian's ledger balance as refresh_canister_balance
\* last read it
VARIABLES
    CACHED_CANISTER_BALANCE,
    swept,          \* history: the sum of what the sweeps returned as sent
    accrued         \* history: the sum of what was added to pending_fees_to_parent

\* The platform and the ledger: the lengths their reject texts have in this run
VARIABLES
    texts

envVars == <<texts>>

\* The state of defi_accounting/guard.rs
VARIABLES
    PENDING_OPERATIONS, \* guard.rs: the callers with an operation in progress
    guards,             \* the OperationGuard values alive, by the operation holding them
    guardResult         \* what the last OperationGuard::new() returned, and to whom

\* The state of casino_main/src/lib.rs
VARIABLES
    USER_ACCOUNTS,  \* lib.rs: the UserAccount of each principal, if any
    casinoTasks,    \* calls of casino_main suspended at an inter-canister call
    casinoQuota,    \* calls each principal may still start
    casinoHist      \* history: deposits credited, withdrawals the ledger
                    \* executed, payouts minus bets of the settled plays

\* The fields of ConcurrentGameModel (crash_backend .. tests/concurrency/async_model.rs)
VARIABLES
    user_balances,      \* HashMap<u64, u64>: a function on the callers that have an entry
    pool_reserve,
    total_system_funds,
    suspended_messages, \* Vec<SuspendedMessage>
    completed_games,    \* Vec<GameResult>
    message_counter,
    gameSetup           \* history: the arguments of setup()

\* The fields of AccountingModel (dice_backend .. tests/stress_tests/model.rs)
VARIABLES
    am_user_balances,       \* user_balances: a function on the users with an entry
    am_lp_shares,           \* lp_shares: a function on the users with an entry
    am_total_shares,        \* total_shares
    am_pool_reserve,        \* pool_reserve
    am_total_system_funds,  \* total_system_funds
    am_accumulated_fees,    \* accumulated_fees
    am_operation_count      \* operation_count

accountingVars == <<balances, pending, auditLog, processing, now, ledgerBalance,
                    ledgerTxs, lpShares, poolReserve, pendingFees, tasks, quota,
                    initiated, credited>>

cacheVars == <<CACHED_CANISTER_BALANCE, swept, accrued>>

guardVars == <<PENDING_OPERATIONS, guards, guardResult>>

casinoVars == <<USER_ACCOUNTS, casinoTasks, casinoQuota, casinoHist>>

gameVars == <<user_balances, pool_reserve, total_system_funds, suspended_messages,
              completed_games, message_counter, gameSetup>>

modelVars == <<am_user_balances, am_lp_shares, am_total_shares, am_pool_reserve,
               am_total_system_funds, am_accumulated_fees, am_operation_count>>

\* What the methods of defi_accounting/{accounting,liquidity_pool}.rs leave
\* alone: all but refresh_canister_balance and its callers leave the cache
outsideAccounting == <<cacheVars, guardVars, casinoVars, gameVars, modelVars, envVars>>

\* What no method of defi_accounting touches
outsideDefi == <<guardVars, casinoVars, gameVars, modelVars, envVars>>

\* What guard.rs leaves alone
outsideGuard == <<accountingVars, cacheVars, casinoVars, gameVars, modelVars, envVars>>

\* What casino_main leaves alone
outsideCasino == <<accountingVars, cacheVars, guardVars, gameVars, modelVars, envVars>>

\* What ConcurrentGameModel leaves alone
outsideGame == <<accountingVars, cacheVars, guardVars, casinoVars, modelVars, envVars>>

\* What AccountingModel leaves alone
outsideModel == <<accountingVars, cacheVars, guardVars, casinoVars, gameVars, envVars>>

vars == <<accountingVars, cacheVars, guardVars, casinoVars, gameVars, modelVars, envVars>>

\* ------------------------------------------------------------------ records
NoPending == [kind |-> "None"]
Idle == [op |-> "idle"]

UserPending(amount, created_at, wid) ==
    [kind |-> "User", amount |-> amount, created_at |-> created_at,
     retries |-> 0, last_error |-> 0, wid |-> wid]

AuditEntry(event_type, user, amount, details) ==
    [event_type |-> event_type, user |-> user, amount |-> amount, details |-> details]

\* The part of the canister state a turn of the accounting module reads and writes.
State == [balances |-> balances, pending |-> pending, auditLog |-> auditLog,
          lpShares |-> lpShares, poolReserve |-> poolReserve,
          pendingFees |-> pendingFees]

Commit(s) ==
    /\ balances' = s.balances
    /\ pending' = s.pending
    /\ auditLog' = s.auditLog
    /\ lpShares' = s.lpShares
    /\ poolReserve' = s.poolReserve
    /\ pendingFees' = s.pendingFees

\* ------------------------------------------------------------------ helpers
CodeLen(code) ==
    CASE code = "SysFatal" -> 8
      [] code = "SysTransient" -> 12
      [] code = "DestinationInvalid" -> 18
      [] code = "CanisterReject" -> 14
      [] code = "CanisterError" -> 13
      [] code = "Unknown" -> 7

\* format!("{:?}: {}", code, msg)
FormatReject(code, msgLen) == CodeLen(code) + 2 + msgLen

\* The reject messages the platform hands back with `code`: of the lengths
\* that format to texts of the lengths `lens`.
MsgLens(code, lens) == {l - 2 - CodeLen(code) : l \in lens}

\* A record whose string alone is longer than max_size cannot be stored:
\* the stable structure panics on it.
FitsPending(rec) == rec.last_error <= PENDING_MAX_SIZE
FitsAudit(entry) == entry.details <= AUDIT_MAX_SIZE

log_audit(s, event_type, user, amount, details) ==
    [s EXCEPT !.auditLog = Append(@, AuditEntry(event_type, user, amount, details))]

get_withdrawal_amount(p) == p.amount

get_balance_internal(s, user) == s.balances[user]

\* format!("{:?}", e) of a ledger-returned error: a short text
DebugLen(e) == TextShort

\* The outcome of attempt_transfer for a ledger answer:
\* Ok, Definite(text) or Uncertain(code, msg).
attempt_transfer(ans) ==
    CASE ans.kind = "Ok" -> [kind |-> "Ok"]
      [] ans.kind = "Err" -> [kind |-> "Definite", err |-> DebugLen(ans.err)]
      [] ans.kind = "Reject" ->
            IF ans.code \in {"SysTransient", "Unknown"}
            THEN [kind |-> "Uncertain", err |-> FormatReject(ans.code, ans.len)]
            ELSE [kind |-> "Definite", err |-> FormatReject(ans.code, ans.len)]

\* liquidity_pool::rollback_lp_withdrawal
rollback_lp_withdrawal(s, user, shares, reserve) ==
    [s EXCEPT !.lpShares[user] = @ + shares, !.poolReserve = @ + reserve]

\* rollback_withdrawal: acts on the record the map holds now.
rollback_withdrawal(s, user) ==
    LET p == s.pending[user] IN
    IF p.kind = "None" THEN s
    ELSE LET s1 == IF p.kind = "User"
                   THEN log_audit([s EXCEPT !.balances[user] = @ + p.amount],
                                  "BalanceRestored", user, p.amount, 22)
                   ELSE log_audit(rollback_lp_withdrawal(s, user, p.shares, p.reserve),
                                  "BalanceRestored", user, p.amount, 20)
         IN  [s1 EXCEPT !.pending[user] = NoPending]

\* -------------------------------------------------------------------- tasks
Slots == 1..MaxTasks
HasFree == \E i \in Slots : tasks[i] = Idle
FreeSlot == CHOOSE i \in Slots : tasks[i] = Idle /\ \A j \in Slots : tasks[j] = Idle => i <= j

\* ------------------------------------------------------------------- ledger
\* The ledger serves the requests of one caller in the order they were sent
\* and its answers arrive in the order it gave them, so serving a request and
\* delivering its answer are one step: the first half of each *_return action.

\* The request of a ledger `transfer`: amount is what leaves the custodian's
\* account (the sum sent plus the ledger fee); created_at 0 stands for None.
TransferReq(to, amount, created_at, wid) ==
    [to |-> to, amount |-> amount, created_at |-> created_at, wid |-> wid]

\* A request repeats an executed one: same recipient, amount and created_at_time.
IsDuplicate(txs, req) ==
    /\ req.created_at # 0
    /\ \E k \in DOMAIN txs :
          /\ txs[k].to = req.to
          /\ txs[k].amount = req.amount
          /\ txs[k].created_at = req.created_at

\* `transfer` served: a repeated request is answered Duplicate and not executed
\* again; another one is executed if the account covers it and the ledger is
\* up (`exec`), and refused otherwise.
ledger_transfer(bal, txs, req, exec) ==
    IF ~exec THEN [st |-> "refused", bal |-> bal, txs |-> txs]
    ELSE IF IsDuplicate(txs, req) THEN [st |-> "dup", bal |-> bal, txs |-> txs]
    ELSE IF bal >= req.amount
    THEN [st |-> "applied", bal |-> bal - req.amount,
          txs |-> IF req.created_at # 0 THEN Append(txs, req) ELSE txs]
    ELSE [st |-> "refused", bal |-> bal, txs |-> txs]

\* icrc2_transfer_from served: the custodian receives `amount` (the fee is
\* charged to the payer on top of it), or the request is refused.
ledger_transfer_from(bal, amount, exec) ==
    IF exec THEN [st |-> "applied", bal |-> bal + amount]
    ELSE [st |-> "refused", bal |-> bal]

\* What the ledger may answer once it has executed ("applied"), not executed
\* ("refused") or recognised a repeated request ("dup").  An executed transfer
\* can still come back as an uncertain reject.
OkAnswer == [kind |-> "Ok"]
ErrAnswer(e) == [kind |-> "Err", err |-> e]
RejectAnswer(code, len) == [kind |-> "Reject", code |-> code, len |-> len]
AnswersWith(st, lens) ==
    CASE st = "applied" ->
            {OkAnswer}
            \cup UNION {{RejectAnswer(c, l) : l \in MsgLens(c, lens)} :
                        c \in {"SysTransient", "Unknown"}}
      [] st = "dup" -> {ErrAnswer("TxDuplicate")}
      [] st = "refused" ->
            {ErrAnswer(e) : e \in LedgerErrors \ {"TxDuplicate"}}
            \cup UNION {{RejectAnswer(c, l) : l \in MsgLens(c, lens)} :
                        c \in RejectionCodes}
\* with reject texts of the lengths of this run
Answers(st) == AnswersWith(st, texts)
AllAnswers ==
    UNION {AnswersWith(st, TextLens \cup {TextMid}) : st \in {"applied", "dup", "refused"}}

\* ------------------------------------------------------------------ deposit
\* deposit, to its await on icrc2_transfer_from
deposit(caller, amount) ==
    /\ IF amount < MIN_DEPOSIT
       THEN UNCHANGED <<tasks, quota>>
       ELSE /\ quota[caller].deposit > 0
            /\ HasFree
            /\ quota' = [quota EXCEPT ![caller].deposit = @ - 1]
            /\ tasks' = [tasks EXCEPT ![FreeSlot] =
                    [op |-> "deposit", caller |-> caller, amount |-> amount]]
    /\ UNCHANGED <<balances, pending, auditLog, processing, now, ledgerBalance,
                   ledgerTxs, lpShares, poolReserve, pendingFees, initiated, credited>>
    /\ UNCHANGED outsideAccounting

\* deposit crediting the whole amount, the ledger fee not taken off
deposit_return_uncharged(i, exec, ans) ==
    /\ tasks[i].op = "deposit"
    /\ LET L == ledger_transfer_from(ledgerBalance, tasks[i].amount, exec)
           caller == tasks[i].caller
           received_amount == tasks[i].amount
           new_bal == balances[caller] + received_amount
       IN  /\ ans \in Answers(L.st)
           /\ ledgerBalance' = L.bal
           /\ IF ans.kind = "Ok"
              THEN /\ balances' = [balances EXCEPT ![caller] = new_bal]
                   /\ credited' = [credited EXCEPT ![caller] = @ + received_amount]
              ELSE UNCHANGED <<balances, credited>>
    /\ tasks' = [tasks EXCEPT ![i] = Idle]
    /\ UNCHANGED <<pending, auditLog, processing, now, ledgerTxs,
                   lpShares, poolReserve, pendingFees, quota, initiated>>
    /\ UNCHANGED outsideAccounting

\* deposit, from the ledger's answer to its return
deposit_return(i, exec, ans) ==
    /\ tasks[i].op = "deposit"
    /\ LET L == ledger_transfer_from(ledgerBalance, tasks[i].amount, exec)
           caller == tasks[i].caller
           received_amount == tasks[i].amount - ICP_TRANSFER_FEE
           new_bal == balances[caller] + received_amount
       IN  /\ ans \in Answers(L.st)
           /\ ledgerBalance' = L.bal
           /\ IF ans.kind = "Ok"
              THEN /\ balances' = [balances EXCEPT ![caller] = new_bal]
                   /\ credited' = [credited EXCEPT ![caller] = @ + received_amount]
              ELSE UNCHANGED <<balances, credited>>
    /\ tasks' = [tasks EXCEPT ![i] = Idle]
    /\ UNCHANGED <<pending, auditLog, processing, now, ledgerTxs,
                   lpShares, poolReserve, pendingFees, quota, initiated>>
    /\ UNCHANGED outsideAccounting

\* ------------------------------------------------------------- withdraw_all
\* What withdraw_all returns before any await, "" if it goes on to the transfer
withdraw_all_check(caller) ==
    LET balance == get_balance_internal(State, caller) IN
    IF balance = 0
    THEN IF pending[caller].kind # "None" THEN "Err:WithdrawalPending"
         ELSE "Err:NoBalance"
    ELSE IF balance < MIN_WITHDRAW THEN "Err:MinimumWithdrawal"
    ELSE ""

\* withdraw_all, to its await on the ledger transfer
withdraw_all(caller) ==
    LET balance == get_balance_internal(State, caller) IN
    /\ IF withdraw_all_check(caller) # ""
       THEN UNCHANGED <<balances, pending, auditLog, tasks, initiated, quota, now>>
       ELSE LET created_at == now
                wid == Len(initiated) + 1
                s1 == [State EXCEPT !.balances[caller] = 0]
                s2 == [s1 EXCEPT !.pending[caller] = UserPending(balance, created_at, wid)]
                s3 == log_audit(s2, "WithdrawalInitiated", caller, balance, 17)
            IN  /\ quota[caller].withdraw > 0
                /\ HasFree
                /\ quota' = [quota EXCEPT ![caller].withdraw = @ - 1]
                /\ balances' = s3.balances
                /\ pending' = s3.pending
                /\ auditLog' = s3.auditLog
                /\ initiated' = Append(initiated,
                        [user |-> caller, amount |-> balance, created_at |-> created_at])
                /\ tasks' = [tasks EXCEPT ![FreeSlot] =
                        [op |-> "withdraw_all", caller |-> caller, amount |-> balance,
                         req |-> TransferReq(caller, balance, created_at, wid)]]
                /\ now' = now + 1
    /\ UNCHANGED <<processing, ledgerBalance, ledgerTxs, lpShares,
                   poolReserve, pendingFees, credited>>
    /\ UNCHANGED outsideAccounting

\* execute_withdrawal after the await: [s, trap, res].  In the Uncertain arm
\* the RefMut of the `if let` scrutinee is still alive when the body calls
\* borrow_mut() again, so the arm panics whenever the record is there.
execute_withdrawal(s, user, amount, ans) ==
    LET r == attempt_transfer(ans) IN
    CASE r.kind = "Ok" ->
            [s |-> log_audit([s EXCEPT !.pending[user] = NoPending],
                             "WithdrawalCompleted", user, amount, 10),
             trap |-> FALSE, res |-> "Ok"]
      [] r.kind = "Definite" ->
            [s |-> log_audit(rollback_withdrawal(s, user),
                             "WithdrawalFailed", user, amount, r.err),
             trap |-> ~FitsAudit(AuditEntry("WithdrawalFailed", user, amount, r.err)),
             res |-> "Err:WithdrawalFailed"]
      [] r.kind = "Uncertain" ->
            [s |-> s, trap |-> s.pending[user].kind # "None",
             res |-> "Err:ProcessingCheckStatusLater"]

\* withdraw_all, from the ledger's answer to its return
withdraw_all_return(i, exec, ans) ==
    /\ tasks[i].op = "withdraw_all"
    /\ LET L == ledger_transfer(ledgerBalance, ledgerTxs, tasks[i].req, exec)
           caller == tasks[i].caller
           out == execute_withdrawal(State, caller, tasks[i].amount, ans)
       IN  /\ ans \in Answers(L.st)
           /\ ledgerBalance' = L.bal
           /\ ledgerTxs' = L.txs
           /\ IF out.trap
              THEN UNCHANGED <<balances, pending, auditLog, lpShares, poolReserve,
                               pendingFees>>
              ELSE Commit(out.s)
    /\ tasks' = [tasks EXCEPT ![i] = Idle]
    /\ UNCHANGED <<processing, now, quota, initiated, credited>>
    /\ UNCHANGED outsideAccounting

\* ------------------------------------------------ process_pending_withdrawals
RECURSIVE Collect(_, _)
Collect(p, order) ==
    IF order = <<>> THEN <<>>
    ELSE LET u == Head(order)
             rest == Collect(p, Tail(order))
         IN  IF p[u].kind # "None" THEN <<[user |-> u, rec |-> p[u]]>> \o rest ELSE rest

Take(q, n) == IF Len(q) <= n THEN q ELSE SubSeq(q, 1, n)

\* PENDING_WITHDRAWALS.iter().take(BATCH_SIZE).collect()
Snapshot(p) == Take(Collect(p, UserOrder), BATCH_SIZE)

\* The branch of the loop for a snapshot entry with retries >= MAX_RETRIES
Expire(s, entry) ==
    rollback_withdrawal(
        log_audit(s, "WithdrawalExpired", entry.user,
                  get_withdrawal_amount(entry.rec), 25),
        entry.user)

\* The loop, from its position `q` in the snapshot to its next await or its
\* end: expired entries are given up without a suspension.
RECURSIVE ScanLoop(_, _)
ScanLoop(s, q) ==
    IF q = <<>> THEN [s |-> s, q |-> q]
    ELSE IF Head(q).rec.retries >= MAX_RETRIES
    THEN ScanLoop(Expire(s, Head(q)), Tail(q))
    ELSE [s |-> s, q |-> q]

\* A retry stamped with the time of the retry
ScanReqFresh(entry) ==
    TransferReq(entry.user, get_withdrawal_amount(entry.rec), now, entry.rec.wid)

\* The retry's request: the snapshot entry's amount and created_at
ScanReq(entry) ==
    TransferReq(entry.user, get_withdrawal_amount(entry.rec),
                entry.rec.created_at, entry.rec.wid)

\* process_pending_withdrawals, to its first await or, with nothing to retry,
\* to its end
process_pending_withdrawals ==
    /\ IF processing
       THEN /\ UNCHANGED <<balances, pending, auditLog, processing, now, ledgerBalance,
                           ledgerTxs, lpShares, poolReserve, pendingFees, tasks,
                           quota, initiated, credited>>
       ELSE LET out == ScanLoop(State, Snapshot(pending)) IN
            /\ Commit(out.s)
            /\ IF out.q = <<>>
               THEN /\ processing' = FALSE
                    /\ UNCHANGED tasks
               ELSE /\ HasFree
                    /\ processing' = TRUE
                    /\ tasks' = [tasks EXCEPT ![FreeSlot] =
                            [op |-> "scan", queue |-> out.q, req |-> ScanReq(Head(out.q))]]
            /\ UNCHANGED <<now, ledgerBalance, ledgerTxs, quota, initiated, credited>>
    /\ UNCHANGED outsideAccounting

\* The match on the retry's outcome for a snapshot entry: [s, trap]
ScanHandle(s, entry, ans) ==
    LET r == attempt_transfer(ans)
        user == entry.user
        amount == get_withdrawal_amount(entry.rec)
    IN
    CASE r.kind = "Ok" ->
            [s |-> log_audit([s EXCEPT !.pending[user] = NoPending],
                             "WithdrawalCompleted", user, amount, 20),
             trap |-> FALSE]
      [] r.kind = "Definite" ->
            [s |-> log_audit(rollback_withdrawal(s, user),
                             "WithdrawalFailed", user, amount, r.err),
             trap |-> ~FitsAudit(AuditEntry("WithdrawalFailed", user, amount, r.err))]
      [] r.kind = "Uncertain" ->
            LET rec == [entry.rec EXCEPT !.retries = @ + 1, !.last_error = r.err]
            IN  [s |-> [s EXCEPT !.pending[user] = rec], trap |-> ~FitsPending(rec)]

\* process_pending_withdrawals, from a retry's answer to the next await or to
\* its end.  A turn that traps ends the invocation with PROCESSING as it was.
scan_return(i, exec, ans) ==
    /\ tasks[i].op = "scan"
    /\ LET L == ledger_transfer(ledgerBalance, ledgerTxs, tasks[i].req, exec)
           entry == Head(tasks[i].queue)
           h == ScanHandle(State, entry, ans)
           out == ScanLoop(h.s, Tail(tasks[i].queue))
       IN  /\ ans \in Answers(L.st)
           /\ ledgerBalance' = L.bal
           /\ ledgerTxs' = L.txs
           /\ IF h.trap
              THEN /\ tasks' = [tasks EXCEPT ![i] = Idle]
                   /\ UNCHANGED <<balances, pending, auditLog, lpShares, poolReserve,
                                  pendingFees, processing>>
              ELSE /\ Commit(out.s)
                   /\ IF out.q = <<>>
                      THEN /\ processing' = FALSE
                           /\ tasks' = [tasks EXCEPT ![i] = Idle]
                      ELSE /\ UNCHANGED processing
                           /\ tasks' = [tasks EXCEPT ![i] =
                                   [op |-> "scan", queue |-> out.q,
                                    req |-> ScanReq(Head(out.q))]]
    /\ UNCHANGED <<now, quota, initiated, credited>>
    /\ UNCHANGED outsideAccounting

\* ----------------------------------------------------------- liquidity pool
\* floor(a * b / c) of the Nat arithmetic.  The product does not fit the
\* machine integers of the checker, so it is accumulated from the binary
\* digits of b, highest first, as a quotient and a remainder by c.
QRDouble(x, c) ==
    IF x.r >= c - x.r THEN [q |-> 2 * x.q + 1, r |-> x.r - (c - x.r)]
    ELSE [q |-> 2 * x.q, r |-> 2 * x.r]

QRAdd(x, a, c) ==
    IF x.r >= c - (a % c) THEN [q |-> x.q + (a \div c) + 1, r |-> x.r - (c - (a % c))]
    ELSE [q |-> x.q + (a \div c), r |-> x.r + (a % c)]

QRStep(x, bit, a, c) ==
    IF bit = 1 THEN QRAdd(QRDouble(x, c), a, c) ELSE QRDouble(x, c)

\* x holds the digits of b above the one of weight p; the test on y has it
\* computed before the next digit is taken.
RECURSIVE MulDivQR(_, _, _, _, _)
MulDivQR(x, p, a, b, c) ==
    IF p = 0 THEN x
    ELSE LET y == QRStep(x, (b \div p) % 2, a, c)
         IN  IF y.r >= 0 THEN MulDivQR(y, p \div 2, a, b, c) ELSE y

\* nat_divide(nat_multiply(a, b), c) of a non-zero c
MulDiv(a, b, c) == MulDivQR([q |-> 0, r |-> 0], 2^30, a, b, c).q

RECURSIVE SumShares(_, _)
SumShares(sh, S) ==
    IF S = {} THEN 0
    ELSE LET u == CHOOSE x \in S : TRUE IN sh[u] + SumShares(sh, S \ {u})

calculate_total_supply(sh) == SumShares(sh, DOMAIN sh)

\* accounting::transfer_to_user: `amount` to the recipient, the fee on top,
\* no created_at_time
TransferToUserReq(recipient, amount) ==
    TransferReq(recipient, amount + TRANSFER_TO_USER_FEE, 0, 0)

\* deposit_liquidity, to its await on transfer_from_user
deposit_liquidity(caller, amount) ==
    /\ IF amount < LP_MIN_DEPOSIT
       THEN UNCHANGED <<tasks, quota>>
       ELSE /\ quota[caller].lp_deposit > 0
            /\ HasFree
            /\ quota' = [quota EXCEPT ![caller].lp_deposit = @ - 1]
            /\ tasks' = [tasks EXCEPT ![FreeSlot] =
                    [op |-> "deposit_liquidity", caller |-> caller, amount |-> amount]]
    /\ UNCHANGED <<balances, pending, auditLog, processing, now, ledgerBalance,
                   ledgerTxs, lpShares, poolReserve, pendingFees, initiated, credited>>
    /\ UNCHANGED outsideAccounting

\* deposit_liquidity, from the answer of transfer_from_user to its return or
\* to its await on the fee transfer to the parent
deposit_liquidity_pulled(i, exec, ans) ==
    /\ tasks[i].op = "deposit_liquidity"
    /\ LET L == ledger_transfer_from(ledgerBalance, tasks[i].amount, exec)
           base_fee == tasks[i].amount \div 100
       IN  /\ ans \in Answers(L.st)
           /\ ledgerBalance' = L.bal
           /\ tasks' = [tasks EXCEPT ![i] =
                   IF ans.kind = "Ok"
                   THEN [op |-> "deposit_fee", caller |-> tasks[i].caller,
                         amount |-> tasks[i].amount,
                         req |-> TransferToUserReq(ParentStaker, base_fee)]
                   ELSE Idle]
    /\ UNCHANGED <<balances, pending, auditLog, processing, now, ledgerTxs,
                   lpShares, poolReserve, pendingFees, quota, initiated, credited>>
    /\ UNCHANGED outsideAccounting

\* deposit_liquidity that mints one share per e8s whatever a share is worth
deposit_liquidity_return_at_par(i, exec, ans) ==
    /\ tasks[i].op = "deposit_fee"
    /\ LET L == ledger_transfer(ledgerBalance, ledgerTxs, tasks[i].req, exec)
           caller == tasks[i].caller
           base_fee == tasks[i].amount \div 100
           deposit_amount == tasks[i].amount - base_fee
           first == calculate_total_supply(lpShares) = 0
           sh1 == IF first THEN [lpShares EXCEPT ![Anonymous] = MINIMUM_LIQUIDITY]
                  ELSE lpShares
           shares_to_mint == IF first THEN deposit_amount - MINIMUM_LIQUIDITY
                             ELSE deposit_amount
       IN  /\ ans \in Answers(L.st)
           /\ ledgerBalance' = L.bal
           /\ ledgerTxs' = L.txs
           /\ pendingFees' = IF ans.kind = "Ok" THEN pendingFees ELSE pendingFees + base_fee
           /\ accrued' = IF ans.kind = "Ok" THEN accrued ELSE accrued + base_fee
           /\ lpShares' = [sh1 EXCEPT ![caller] = @ + shares_to_mint]
           /\ poolReserve' = poolReserve + deposit_amount
    /\ tasks' = [tasks EXCEPT ![i] = Idle]
    /\ UNCHANGED <<balances, pending, auditLog, processing, now, quota, initiated, credited>>
    /\ UNCHANGED <<CACHED_CANISTER_BALANCE, swept>>
    /\ UNCHANGED outsideDefi

\* deposit_liquidity, from the answer of the fee transfer to its return
deposit_liquidity_return(i, exec, ans) ==
    /\ tasks[i].op = "deposit_fee"
    /\ LET L == ledger_transfer(ledgerBalance, ledgerTxs, tasks[i].req, exec)
           caller == tasks[i].caller
           base_fee == tasks[i].amount \div 100
           deposit_amount == tasks[i].amount - base_fee
           fees == IF ans.kind = "Ok" THEN pendingFees ELSE pendingFees + base_fee
           total_shares == calculate_total_supply(lpShares)
           first == total_shares = 0
           sh1 == IF first THEN [lpShares EXCEPT ![Anonymous] = MINIMUM_LIQUIDITY]
                  ELSE lpShares
           failed == ~first /\ poolReserve = 0
           followed == IF first \/ failed THEN TRUE
                       ELSE total_shares \div poolReserve < MaxShareRatio
           shares_to_mint ==
               IF first THEN deposit_amount - MINIMUM_LIQUIDITY
               ELSE MulDiv(deposit_amount, total_shares, poolReserve)
       IN  /\ followed
           /\ ans \in Answers(L.st)
           /\ ledgerBalance' = L.bal
           /\ ledgerTxs' = L.txs
           /\ pendingFees' = fees
           /\ accrued' = accrued + (fees - pendingFees)
           /\ IF failed
              THEN UNCHANGED <<lpShares, poolReserve>>
              ELSE /\ lpShares' = [sh1 EXCEPT ![caller] = @ + shares_to_mint]
                   /\ poolReserve' = poolReserve + deposit_amount
    /\ tasks' = [tasks EXCEPT ![i] = Idle]
    /\ UNCHANGED <<balances, pending, auditLog, processing, now, quota, initiated, credited>>
    /\ UNCHANGED <<CACHED_CANISTER_BALANCE, swept>>
    /\ UNCHANGED outsideDefi

\* a.saturating_sub(b)
saturating_sub(a, b) == IF a >= b THEN a - b ELSE 0

\* --------------------------------------------------- reconcile_floating_funds
\* reconcile_floating_funds, to its await on refresh_canister_balance
reconcile_floating_funds ==
    LET pending_fees == pendingFees IN
    /\ IF pending_fees < RECONCILIATION_THRESHOLD
       THEN UNCHANGED <<tasks, quota>>
       ELSE /\ quota[Heartbeat].sweep > 0
            /\ HasFree
            /\ quota' = [quota EXCEPT ![Heartbeat].sweep = @ - 1]
            /\ tasks' = [tasks EXCEPT ![FreeSlot] =
                    [op |-> "reconcile", caller |-> Heartbeat,
                     pending_fees |-> pending_fees]]
    /\ UNCHANGED <<balances, pending, auditLog, processing, now, ledgerBalance,
                   ledgerTxs, lpShares, poolReserve, pendingFees, initiated, credited>>
    /\ UNCHANGED cacheVars
    /\ UNCHANGED outsideDefi

\* accounting::refresh_canister_balance after its await: the balance the
\* ledger reports, which is put in the cache, or what the cache holds if the
\* call failed (`answered` FALSE): [balance, cache]
refresh_canister_balance(cache, bal, answered) ==
    IF answered THEN [balance |-> bal, cache |-> bal]
    ELSE [balance |-> cache, cache |-> cache]

\* (canister_balance as f64 * MAX_RECONCILIATION_PERCENTAGE) as u64: the
\* product is exact to well within one e8s for a balance below 2^31, and the
\* cast truncates
max_sweep(canister_balance) == canister_balance \div RECONCILIATION_PARTS

Min(a, b) == IF a <= b THEN a ELSE b

\* reconcile_floating_funds, from the answer of account_balance to its
\* return or to its await on the transfer to the parent
reconcile_refreshed(i, answered) ==
    /\ tasks[i].op = "reconcile"
    /\ LET R == refresh_canister_balance(CACHED_CANISTER_BALANCE, ledgerBalance, answered)
           sweep_amount == Min(tasks[i].pending_fees, max_sweep(R.balance))
       IN  /\ CACHED_CANISTER_BALANCE' = R.cache
           /\ UNCHANGED <<swept, accrued>>
           /\ tasks' = [tasks EXCEPT ![i] =
                   IF sweep_amount < RECONCILIATION_THRESHOLD THEN Idle
                   ELSE [op |-> "reconcile_transfer", caller |-> Heartbeat,
                         amount |-> sweep_amount,
                         req |-> TransferToUserReq(ParentStaker, sweep_amount)]]
    /\ UNCHANGED <<balances, pending, auditLog, processing, now, ledgerBalance,
                   ledgerTxs, lpShares, poolReserve, pendingFees, quota, initiated,
                   credited>>
    /\ UNCHANGED outsideDefi

\* reconcile_floating_funds, from the answer of the transfer to its return
reconcile_return(i, exec, ans) ==
    /\ tasks[i].op = "reconcile_transfer"
    /\ LET L == ledger_transfer(ledgerBalance, ledgerTxs, tasks[i].req, exec)
       IN  /\ ans \in Answers(L.st)
           /\ ledgerBalance' = L.bal
           /\ ledgerTxs' = L.txs
           /\ pendingFees' = IF ans.kind = "Ok"
                             THEN saturating_sub(pendingFees, tasks[i].amount)
                             ELSE pendingFees
           /\ swept' = IF ans.kind = "Ok" THEN swept + tasks[i].amount ELSE swept
    /\ tasks' = [tasks EXCEPT ![i] = Idle]
    /\ UNCHANGED <<balances, pending, auditLog, processing, now, lpShares,
                   poolReserve, quota, initiated, credited>>
    /\ UNCHANGED <<CACHED_CANISTER_BALANCE, accrued>>
    /\ UNCHANGED outsideDefi

\* withdraw_liquidity_check that leaves the burned shares out of the total
withdraw_liquidity_check_unburned(sh, reserve, caller) ==
    LET shares_to_burn == sh[caller]
        total_shares == calculate_total_supply(sh) - sh[Anonymous]
        payout == MulDiv(shares_to_burn, reserve, total_shares)
    IN  IF shares_to_burn = 0 \/ total_shares = 0 THEN [ok |-> FALSE, payout |-> 0]
        ELSE IF payout > reserve \/ payout < MIN_WITHDRAWAL
        THEN [ok |-> FALSE, payout |-> 0]
        ELSE [ok |-> TRUE, payout |-> payout]

\* withdraw_liquidity_check that rounds the payout up to the next e8s
withdraw_liquidity_check_rounding_up(sh, reserve, caller) ==
    LET shares_to_burn == sh[caller]
        total_shares == calculate_total_supply(sh)
        x == MulDivQR([q |-> 0, r |-> 0], 2^30, shares_to_burn, reserve, total_shares)
        payout == IF x.r > 0 THEN x.q + 1 ELSE x.q
    IN  IF shares_to_burn = 0 \/ total_shares = 0 THEN [ok |-> FALSE, payout |-> 0]
        ELSE IF payout > reserve \/ payout < MIN_WITHDRAWAL
        THEN [ok |-> FALSE, payout |-> 0]
        ELSE [ok |-> TRUE, payout |-> payout]

\* The checks of withdraw_all_liquidity and withdraw_liquidity before anything
\* is written, for a caller burning all its shares: whether they pass, and the
\* payout if they do
withdraw_liquidity_check(sh, reserve, caller) ==
    LET shares_to_burn == sh[caller]
        total_shares == calculate_total_supply(sh)
        payout == MulDiv(shares_to_burn, reserve, total_shares)
    IN  IF shares_to_burn = 0 \/ total_shares = 0 THEN [ok |-> FALSE, payout |-> 0]
        ELSE IF payout > reserve \/ payout < MIN_WITHDRAWAL
        THEN [ok |-> FALSE, payout |-> 0]
        ELSE [ok |-> TRUE, payout |-> payout]

\* withdraw_all_liquidity and the withdraw_liquidity it calls, to the await on
\* transfer_to_user
withdraw_all_liquidity(caller) ==
    LET shares_to_burn == lpShares[caller]
        user_shares == lpShares[caller]
        checked == withdraw_liquidity_check(lpShares, poolReserve, caller)
        payout == checked.payout
        new_reserve == poolReserve - payout
    IN
    /\ IF ~checked.ok
       THEN UNCHANGED <<lpShares, poolReserve, tasks, quota>>
       ELSE /\ quota[caller].lp_withdraw > 0
            /\ HasFree
            /\ quota' = [quota EXCEPT ![caller].lp_withdraw = @ - 1]
            /\ lpShares' = [lpShares EXCEPT ![caller] = user_shares - shares_to_burn]
            /\ poolReserve' = new_reserve
            /\ tasks' = [tasks EXCEPT ![FreeSlot] =
                    [op |-> "withdraw_liquidity", caller |-> caller,
                     user_shares |-> user_shares, new_reserve |-> new_reserve,
                     payout |-> payout, req |-> TransferToUserReq(caller, payout)]]
    /\ UNCHANGED <<balances, pending, auditLog, processing, now, ledgerBalance,
                   ledgerTxs, pendingFees, initiated, credited>>
    /\ UNCHANGED outsideAccounting

\* withdraw_liquidity, from the answer of transfer_to_user to its return: any
\* answer but Ok puts back the shares and the reserve captured before the await
withdraw_liquidity_return(i, exec, ans) ==
    /\ tasks[i].op = "withdraw_liquidity"
    /\ LET L == ledger_transfer(ledgerBalance, ledgerTxs, tasks[i].req, exec)
           caller == tasks[i].caller
       IN  /\ ans \in Answers(L.st)
           /\ ledgerBalance' = L.bal
           /\ ledgerTxs' = L.txs
           /\ IF ans.kind = "Ok"
              THEN UNCHANGED <<lpShares, poolReserve>>
              ELSE /\ lpShares' = [lpShares EXCEPT ![caller] = tasks[i].user_shares]
                   /\ poolReserve' = tasks[i].new_reserve + tasks[i].payout
    /\ tasks' = [tasks EXCEPT ![i] = Idle]
    /\ UNCHANGED <<balances, pending, auditLog, processing, now, pendingFees,
                   quota, initiated, credited>>
    /\ UNCHANGED outsideAccounting

\* nat_helpers::nat_subtract: None when b exceeds a
nat_subtract(a, b) == IF a >= b THEN [some |-> TRUE, v |-> a - b] ELSE [some |-> FALSE]

\* update_pool_on_win with a subtraction that stops at zero
update_pool_on_win_clamped(payout) ==
    /\ quota[GameLogic].settle > 0
    /\ quota' = [quota EXCEPT ![GameLogic].settle = @ - 1]
    /\ poolReserve' = IF payout > poolReserve THEN 0 ELSE poolReserve - payout
    /\ UNCHANGED <<balances, pending, auditLog, processing, now, ledgerBalance,
                   ledgerTxs, lpShares, pendingFees, tasks, initiated, credited>>
    /\ UNCHANGED outsideAccounting

\* update_pool_on_win, called by the game logic for a player's win; a payout
\* above the reserve traps, which discards the turn
update_pool_on_win(payout) ==
    /\ quota[GameLogic].settle > 0
    /\ quota' = [quota EXCEPT ![GameLogic].settle = @ - 1]
    /\ LET new_reserve == nat_subtract(poolReserve, payout)
       IN  IF new_reserve.some
           THEN poolReserve' = new_reserve.v
           ELSE UNCHANGED poolReserve
    /\ UNCHANGED <<balances, pending, auditLog, processing, now, ledgerBalance,
                   ledgerTxs, lpShares, pendingFees, tasks, initiated, credited>>
    /\ UNCHANGED outsideAccounting

\* update_pool_on_loss, called by the game logic for a player's loss
update_pool_on_loss(bet) ==
    /\ quota[GameLogic].settle > 0
    /\ quota' = [quota EXCEPT ![GameLogic].settle = @ - 1]
    /\ poolReserve' = poolReserve + bet
    /\ UNCHANGED <<balances, pending, auditLog, processing, now, ledgerBalance,
                   ledgerTxs, lpShares, pendingFees, tasks, initiated, credited>>
    /\ UNCHANGED outsideAccounting

\* ------------------------------------------------------------------- guard
\* defi_accounting/guard.rs.  An operation that wants the guard calls
\* OperationGuard::new() and keeps the value it gets for as long as it runs;
\* the value is dropped when the operation ends.
GuardCallers == Users \cup {Anonymous, ParentStaker}
GuardSlots == 1..MaxGuards
NoGuard == "none"

\* OperationGuard::new() that gives the caller's place to the new attempt
OperationGuardNewReleasing(ops, caller) ==
    IF caller \in ops
    THEN [ops |-> ops \ {caller}, ok |-> FALSE]
    ELSE [ops |-> ops \cup {caller}, ok |-> TRUE]

\* OperationGuard::new() of `caller`: the set afterwards and whether a guard
\* was returned (Err("Operation already in progress for this caller") if not)
OperationGuardNew(ops, caller) ==
    IF caller \in ops
    THEN [ops |-> ops, ok |-> FALSE]
    ELSE [ops |-> ops \cup {caller}, ok |-> TRUE]

\* Drop for OperationGuard
OperationGuardDrop(ops, caller) == ops \ {caller}

\* The operation in slot i, of `caller`, asks for the guard
guard_new(i, caller) ==
    /\ guards[i] = NoGuard
    /\ LET r == OperationGuardNew(PENDING_OPERATIONS, caller)
       IN  /\ PENDING_OPERATIONS' = r.ops
           /\ guards' = IF r.ok THEN [guards EXCEPT ![i] = caller] ELSE guards
           /\ guardResult' = [caller |-> caller, ok |-> r.ok]
    /\ UNCHANGED outsideGuard

\* The operation in slot i ends and its guard goes out of scope
guard_drop(i) ==
    /\ guards[i] # NoGuard
    /\ PENDING_OPERATIONS' = OperationGuardDrop(PENDING_OPERATIONS, guards[i])
    /\ guards' = [guards EXCEPT ![i] = NoGuard]
    /\ UNCHANGED guardResult
    /\ UNCHANGED outsideGuard

\* guard.rs after installation: nobody holds a guard
GuardInstalled ==
    /\ PENDING_OPERATIONS = {}
    /\ guards = [i \in GuardSlots |-> NoGuard]
    /\ guardResult = [caller |-> NoGuard, ok |-> TRUE]

\* -------------------------------------------------------------- casino_main
\* casino_main/src/lib.rs.  The timestamps of an account and the record maps
\* (DEPOSITS, WITHDRAWALS, GAME_TRANSACTIONS, CASINO_STATS) are written and
\* never read by the methods below; casinoHist keeps what is asked of them.
CasinoUsers == {"u1"}
CasinoSlots == 1..MaxCasinoTasks
CasinoDepositAmounts == {CASINO_MIN_DEPOSIT \div 2, CASINO_MIN_DEPOSIT}
CasinoWithdrawAmounts == {CASINO_MIN_WITHDRAWAL \div 2, CASINO_MIN_WITHDRAWAL,
                          2 * MAX_WITHDRAWAL}
BetAmounts == {MIN_BET \div 2, MIN_BET, 2 * MAX_BET}

NoAccount == [principal |-> "none"]
CasinoIdle == [op |-> "idle"]

CasinoHasFree == \E i \in CasinoSlots : casinoTasks[i] = CasinoIdle
CasinoFreeSlot ==
    CHOOSE i \in CasinoSlots :
        casinoTasks[i] = CasinoIdle /\ \A j \in CasinoSlots : casinoTasks[j] = CasinoIdle => i <= j

\* get_or_create_account: the accounts afterwards; the account returned is
\* the principal's entry in them
get_or_create_account(accounts, principal) ==
    IF accounts[principal] # NoAccount THEN accounts
    ELSE [accounts EXCEPT ![principal] =
            [principal |-> principal, balance |-> 0, total_deposited |-> 0,
             total_withdrawn |-> 0, total_wagered |-> 0, is_locked |-> FALSE]]

\* What the ledger or the game canister answered: Ok, an error of the callee
\* (Err) or a reject of the call (Reject)
CallAnswers == {"Ok", "Err", "Reject"}

\* deposit, to its await on icrc1_transfer
casino_deposit(caller, amount) ==
    /\ IF amount < CASINO_MIN_DEPOSIT
       THEN UNCHANGED <<casinoTasks, casinoQuota>>
       ELSE /\ casinoQuota[caller].deposit > 0
            /\ CasinoHasFree
            /\ casinoQuota' = [casinoQuota EXCEPT ![caller].deposit = @ - 1]
            /\ casinoTasks' = [casinoTasks EXCEPT ![CasinoFreeSlot] =
                    [op |-> "deposit", caller |-> caller, amount |-> amount]]
    /\ UNCHANGED <<USER_ACCOUNTS, casinoHist>>
    /\ UNCHANGED outsideCasino

\* deposit, from the ledger's answer to its return: the account is read
\* after the await
casino_deposit_return(i, ans) ==
    /\ casinoTasks[i].op = "deposit"
    /\ LET caller == casinoTasks[i].caller
           amount == casinoTasks[i].amount
           accounts == get_or_create_account(USER_ACCOUNTS, caller)
           account == [accounts[caller] EXCEPT !.balance = @ + amount,
                                               !.total_deposited = @ + amount]
       IN  IF ans = "Ok"
           THEN /\ USER_ACCOUNTS' = [accounts EXCEPT ![caller] = account]
                /\ casinoHist' = [casinoHist EXCEPT ![caller].deposited = @ + amount]
           ELSE UNCHANGED <<USER_ACCOUNTS, casinoHist>>
    /\ casinoTasks' = [casinoTasks EXCEPT ![i] = CasinoIdle]
    /\ UNCHANGED casinoQuota
    /\ UNCHANGED outsideCasino

\* What withdraw returns before its await, "" if it goes on to the transfer
casino_withdraw_check(caller, amount) ==
    IF amount < CASINO_MIN_WITHDRAWAL THEN "Err:MinimumWithdrawal"
    ELSE IF amount > MAX_WITHDRAWAL THEN "Err:MaximumWithdrawal"
    ELSE IF USER_ACCOUNTS[caller] = NoAccount THEN "Err:AccountNotFound"
    ELSE IF USER_ACCOUNTS[caller].is_locked THEN "Err:AccountLocked"
    ELSE IF USER_ACCOUNTS[caller].balance < amount THEN "Err:InsufficientBalance"
    ELSE ""

\* withdraw, to its await on icrc1_transfer: `account` is the caller's copy
\* of the account, which the rest of the call keeps using
casino_withdraw(caller, amount) ==
    /\ IF casino_withdraw_check(caller, amount) # ""
       THEN UNCHANGED <<USER_ACCOUNTS, casinoTasks, casinoQuota>>
       ELSE LET account == [USER_ACCOUNTS[caller] EXCEPT
                                !.balance = @ - amount,
                                !.total_withdrawn = @ + amount]
            IN  /\ casinoQuota[caller].withdraw > 0
                /\ CasinoHasFree
                /\ casinoQuota' = [casinoQuota EXCEPT ![caller].withdraw = @ - 1]
                /\ USER_ACCOUNTS' = [USER_ACCOUNTS EXCEPT ![caller] = account]
                /\ casinoTasks' = [casinoTasks EXCEPT ![CasinoFreeSlot] =
                        [op |-> "withdraw", caller |-> caller, amount |-> amount,
                         account |-> account]]
    /\ UNCHANGED casinoHist
    /\ UNCHANGED outsideCasino

\* The rollback of withdraw: the copy made before the await, with the
\* amount put back, written over the stored account
WithdrawRollback(accounts, caller, account, amount) ==
    [accounts EXCEPT ![caller] =
        [account EXCEPT !.balance = @ + amount, !.total_withdrawn = @ - amount]]

\* withdraw, from the ledger's answer to its return.  `exec`: the ledger
\* executed the transfer; it answers Ok or the call is rejected after the
\* fact, and a transfer that was not executed is answered Err or rejected.
casino_withdraw_return(i, exec, ans) ==
    /\ casinoTasks[i].op = "withdraw"
    /\ ans \in (IF exec THEN {"Ok", "Reject"} ELSE {"Err", "Reject"})
    /\ LET caller == casinoTasks[i].caller
           amount == casinoTasks[i].amount
       IN  /\ casinoHist' = IF exec
                            THEN [casinoHist EXCEPT ![caller].paid = @ + amount]
                            ELSE casinoHist
           /\ USER_ACCOUNTS' =
                 IF ans = "Ok" THEN USER_ACCOUNTS
                 ELSE WithdrawRollback(USER_ACCOUNTS, caller, casinoTasks[i].account, amount)
    /\ casinoTasks' = [casinoTasks EXCEPT ![i] = CasinoIdle]
    /\ UNCHANGED casinoQuota
    /\ UNCHANGED outsideCasino

\* What play_dice / play_plinko return before the await, "" if the bet is
\* accepted
play_check(accounts, caller, bet_amount) ==
    IF bet_amount < MIN_BET THEN "Err:MinimumBet"
    ELSE IF bet_amount > MAX_BET THEN "Err:MaximumBet"
    ELSE IF accounts[caller].is_locked THEN "Err:AccountLocked"
    ELSE IF accounts[caller].balance < bet_amount THEN "Err:InsufficientBalance"
    ELSE ""

\* play_dice and play_plinko, to the await on the game canister's
\* play_from_casino: the two differ in the canister called
play(caller, bet_amount, game) ==
    LET valid == bet_amount >= MIN_BET /\ bet_amount <= MAX_BET
        accounts == IF valid THEN get_or_create_account(USER_ACCOUNTS, caller)
                    ELSE USER_ACCOUNTS
    IN
    /\ IF ~valid \/ play_check(accounts, caller, bet_amount) # ""
       THEN /\ USER_ACCOUNTS' = accounts
            /\ UNCHANGED <<casinoTasks, casinoQuota>>
       ELSE LET account == [accounts[caller] EXCEPT !.balance = @ - bet_amount,
                                                    !.is_locked = TRUE]
            IN  /\ casinoQuota[caller].play > 0
                /\ CasinoHasFree
                /\ casinoQuota' = [casinoQuota EXCEPT ![caller].play = @ - 1]
                /\ USER_ACCOUNTS' = [accounts EXCEPT ![caller] = account]
                /\ casinoTasks' = [casinoTasks EXCEPT ![CasinoFreeSlot] =
                        [op |-> "play", game |-> game, caller |-> caller,
                         bet_amount |-> bet_amount, account |-> account]]
    /\ UNCHANGED casinoHist
    /\ UNCHANGED outsideCasino

play_dice(caller, bet_amount) == play(caller, bet_amount, "dice")

play_plinko(caller, bet_amount) == play(caller, bet_amount, "plinko")

\* The payouts the game canister may report for a bet
Payouts(bet_amount) == {0, 2 * bet_amount}

\* The account play_dice / play_plinko write after the await: the copy made
\* before the await, with the payout (Ok) or the bet (rollback) added
PlaySettle(accounts, caller, account, bet_amount, ans, payout) ==
    [accounts EXCEPT ![caller] =
        IF ans = "Ok"
        THEN [account EXCEPT !.balance = @ + payout,
                             !.total_wagered = @ + bet_amount,
                             !.is_locked = FALSE]
        ELSE [account EXCEPT !.balance = @ + bet_amount, !.is_locked = FALSE]]

\* play_dice / play_plinko, from the game canister's answer to the return
play_return(i, ans, payout) ==
    /\ casinoTasks[i].op = "play"
    /\ LET caller == casinoTasks[i].caller
           bet_amount == casinoTasks[i].bet_amount
       IN  /\ payout \in Payouts(bet_amount)
           /\ ans # "Ok" => payout = 0
           /\ USER_ACCOUNTS' = PlaySettle(USER_ACCOUNTS, caller, casinoTasks[i].account,
                                          bet_amount, ans, payout)
           /\ casinoHist' = IF ans = "Ok"
                            THEN [casinoHist EXCEPT ![caller].wager_net =
                                                        @ + payout - bet_amount]
                            ELSE casinoHist
    /\ casinoTasks' = [casinoTasks EXCEPT ![i] = CasinoIdle]
    /\ UNCHANGED casinoQuota
    /\ UNCHANGED outsideCasino

RECURSIVE SumBalances(_, _)
\* accounts.iter().map(|(_, account)| account.balance).sum()
SumBalances(accounts, S) ==
    IF S = {} THEN 0
    ELSE LET u == CHOOSE x \in S : TRUE
         IN  (IF accounts[u] = NoAccount THEN 0 ELSE accounts[u].balance)
             + SumBalances(accounts, S \ {u})

get_total_user_balances == SumBalances(USER_ACCOUNTS, CasinoUsers)

\* verify_reserves: the report, without its timestamp
verify_reserves ==
    [total_user_balances |-> get_total_user_balances, is_solvent |-> TRUE]

RECURSIVE SumCustody(_, _)
\* The most casino_main's ledger account can hold if it was empty at
\* installation: what the credited deposits brought in less what the executed
\* withdrawals paid out
SumCustody(hist, S) ==
    IF S = {} THEN 0
    ELSE LET u == CHOOSE x \in S : TRUE
         IN  hist[u].deposited - hist[u].paid + SumCustody(hist, S \ {u})

\* casino_main after installation, nothing started
CasinoInstalled ==
    /\ USER_ACCOUNTS = [u \in CasinoUsers |-> NoAccount]
    /\ casinoTasks = [i \in CasinoSlots |-> CasinoIdle]
    /\ casinoHist = [u \in CasinoUsers |-> [deposited |-> 0, paid |-> 0, wager_net |-> 0]]

CasinoUnused ==
    /\ CasinoInstalled
    /\ casinoQuota = [u \in CasinoUsers |-> [deposit |-> 0, withdraw |-> 0, play |-> 0]]

\* ------------------------------------------------------ ConcurrentGameModel
\* crash_backend/src/defi_accounting/tests/concurrency/async_model.rs.
\* A multiplier and a random number are f64 in the source; here they are
\* counted in hundredths (200 is 2.0, 51 is 0.51).
GameCallers == {1, 2}
GameBets == {GAME_MIN_BET \div 2, 1000000, 3000000, 5000000}
TargetMultipliers == {200}
Randoms == {1, 30, 50, 51, 99}
GameSetups == {[user |-> 1, balance |-> 1000000, pool |-> 100000000],
               [user |-> 1, balance |-> 10000000, pool |-> 100000000]}

\* self.user_balances.get(&caller).unwrap_or(&0)
BalanceOf(ub, caller) == IF caller \in DOMAIN ub THEN ub[caller] ELSE 0

\* user_balances.insert(caller, value)
InsertBalance(ub, caller, value) ==
    [c \in DOMAIN ub \cup {caller} |-> IF c = caller THEN value ELSE ub[c]]

\* (bet_amount as f64 * target) as u64
TimesMultiplier(bet_amount, target) == (bet_amount * target) \div 100

\* calculate_crash_point(random) >= target, with raw = 0.99 / (1.0 - random)
\* and the crash point 1.0 where raw is below it
CrashPointReaches(random, target) ==
    IF 99 < 100 - random THEN 100 >= target
    ELSE 99 * 100 >= target * (100 - random)

\* What start_game returns as an error, "" if the message is suspended
start_game_check(caller, bet_amount, target) ==
    LET captured_balance == BalanceOf(user_balances, caller)
        max_payout == TimesMultiplier(bet_amount, target)
        max_allowed == pool_reserve \div 10
    IN  IF captured_balance < bet_amount THEN "INSUFFICIENT_BALANCE"
        ELSE IF bet_amount < GAME_MIN_BET THEN "Below minimum"
        ELSE IF max_payout > max_allowed THEN "Exceeds house limit"
        ELSE ""

\* start_game: the message captures the balance and suspends
start_game(caller, bet_amount, target) ==
    /\ IF start_game_check(caller, bet_amount, target) # ""
       THEN UNCHANGED <<suspended_messages, message_counter>>
       ELSE /\ message_counter < MaxGames
            /\ message_counter' = message_counter + 1
            /\ suspended_messages' = Append(suspended_messages,
                    [id |-> message_counter, caller |-> caller,
                     captured_balance |-> BalanceOf(user_balances, caller),
                     bet_amount |-> bet_amount, target_multiplier |-> target])
    /\ UNCHANGED <<user_balances, pool_reserve, total_system_funds, completed_games,
                   gameSetup>>
    /\ UNCHANGED outsideGame

\* suspended_messages.remove(idx)
RemoveAt(q, idx) == SubSeq(q, 1, idx - 1) \o SubSeq(q, idx + 1, Len(q))

\* resume_game of the message at position idx of suspended_messages; the
\* captured balance covers the bet, so checked_sub gives a value
resume_game(idx, random_result) ==
    /\ idx \in DOMAIN suspended_messages
    /\ LET msg == suspended_messages[idx]
           won == CrashPointReaches(random_result, msg.target_multiplier)
           payout == IF won THEN TimesMultiplier(msg.bet_amount, msg.target_multiplier)
                     ELSE 0
           balance_after_bet == msg.captured_balance - msg.bet_amount
           ub1 == InsertBalance(user_balances, msg.caller, balance_after_bet)
           current == BalanceOf(ub1, msg.caller)
           new_balance == current + payout
       IN  /\ suspended_messages' = RemoveAt(suspended_messages, idx)
           /\ user_balances' = InsertBalance(ub1, msg.caller, new_balance)
           /\ pool_reserve' =
                 IF payout > msg.bet_amount
                 THEN saturating_sub(pool_reserve, payout - msg.bet_amount)
                 ELSE IF payout < msg.bet_amount
                 THEN pool_reserve + (msg.bet_amount - payout)
                 ELSE pool_reserve
           /\ completed_games' = Append(completed_games,
                    [message_id |-> msg.id, caller |-> msg.caller,
                     bet_amount |-> msg.bet_amount, payout |-> payout,
                     balance_before_deduct |-> msg.captured_balance,
                     balance_written |-> new_balance])
    /\ UNCHANGED <<total_system_funds, message_counter, gameSetup>>
    /\ UNCHANGED outsideGame

\* ConcurrentGameModel::new() followed by setup(user, balance, pool)
GameSetUp(args) ==
    /\ user_balances = [c \in {args.user} |-> args.balance]
    /\ pool_reserve = args.pool
    /\ total_system_funds = args.balance + args.pool
    /\ suspended_messages = <<>>
    /\ completed_games = <<>>
    /\ message_counter = 0
    /\ gameSetup = args

GameUnused == GameSetUp(CHOOSE a \in GameSetups : a.balance = 1000000)

\* ---------------------------------------------------------- AccountingModel
\* dice_backend/src/defi_accounting/tests/stress_tests/model.rs.  Each
\* operation is a function of the model `m`: the model afterwards and the
\* OpResult.  The checked u64 operations that panic, and the Overflow result,
\* need sums of 2^64 and more, which the amounts of this module do not reach.
ModelUsers == {0, 1, 2}
ModelDepositAmounts == {0, 10000, 5000000}
ModelBetAmounts == {MODEL_MIN_BET \div 2, MODEL_MIN_BET, 5000000}
MultipliersBps == {5000, 20000}
ModelLpAmounts == {0, MINIMUM_LIQUIDITY, 1000000}
InitialLiquidity == {0, 100000000}

\* The model as a value
Model == [user_balances |-> am_user_balances, lp_shares |-> am_lp_shares,
          total_shares |-> am_total_shares, pool_reserve |-> am_pool_reserve,
          total_system_funds |-> am_total_system_funds,
          accumulated_fees |-> am_accumulated_fees]

\* AccountingModel::new()
NewModel == [user_balances |-> <<>>, lp_shares |-> <<>>, total_shares |-> 0,
             pool_reserve |-> 0, total_system_funds |-> 0, accumulated_fees |-> 0]

\* map.get(&k).unwrap_or(&0), and the value of map.entry(k).or_insert(0)
Get0(map, k) == IF k \in DOMAIN map THEN map[k] ELSE 0

\* map.insert(k, v)
Put(map, k, v) == [x \in DOMAIN map \cup {k} |-> IF x = k THEN v ELSE map[x]]

\* map.remove(&k)
Remove(map, k) == [x \in DOMAIN map \ {k} |-> map[x]]

OpOut(m, res) == [m |-> m, res |-> res]

user_deposit(m, user, amount) ==
    IF amount = 0 THEN OpOut(m, "ZeroAmount")
    ELSE OpOut([m EXCEPT !.user_balances = Put(@, user, Get0(@, user) + amount),
                         !.total_system_funds = @ + amount],
               "Success")

user_withdraw(m, user) ==
    IF user \in DOMAIN m.user_balances
    THEN LET amount == m.user_balances[user] IN
         IF amount = 0 THEN OpOut(m, "InsufficientBalance")
         ELSE OpOut([m EXCEPT !.user_balances = Put(@, user, 0),
                              !.total_system_funds = @ - amount],
                    "Success")
    ELSE OpOut(m, "InsufficientBalance")

place_bet(m, user, amount, win, multiplier_bps) ==
    IF amount < MODEL_MIN_BET THEN OpOut(m, "BelowMinimum")
    ELSE
    LET balance == Get0(m.user_balances, user)
        m0 == [m EXCEPT !.user_balances = Put(@, user, balance)]
        payout == MulDiv(amount, multiplier_bps, 10000)
    IN  IF balance < amount THEN OpOut(m0, "InsufficientBalance")
        ELSE IF win
        THEN IF payout > amount
             THEN IF m.pool_reserve < payout - amount
                  THEN OpOut(m0, "InsufficientPoolReserve")
                  ELSE OpOut([m EXCEPT
                                !.user_balances = Put(@, user, balance - amount + payout),
                                !.pool_reserve = @ - (payout - amount)],
                             "Success")
             ELSE OpOut([m EXCEPT
                            !.user_balances = Put(@, user, balance - amount + payout),
                            !.pool_reserve = @ + (amount - payout)],
                        "Success")
        ELSE OpOut([m EXCEPT !.user_balances = Put(@, user, balance - amount),
                             !.pool_reserve = @ + amount],
                   "Success")

\* lp_deposit where the caller receives `shares`, m1 being the model after
\* the burn of the first deposit, if this is one
LpDepositMint(m, m1, user, amount, shares) ==
    IF shares = 0 THEN OpOut(m1, "BelowMinimum")
    ELSE OpOut([m1 EXCEPT !.lp_shares = Put(@, user, Get0(@, user) + shares),
                          !.total_shares = @ + shares,
                          !.pool_reserve = @ + amount,
                          !.total_system_funds = @ + amount],
               "Success")

\* lp_deposit panics on the division by a pool_reserve of 0 with shares
\* outstanding
lp_deposit_panics(m, user, amount) ==
    amount # 0 /\ m.total_shares # 0 /\ m.pool_reserve = 0

lp_deposit(m, user, amount) ==
    IF amount = 0 THEN OpOut(m, "ZeroAmount")
    ELSE IF m.total_shares = 0
    THEN IF amount < MINIMUM_LIQUIDITY THEN OpOut(m, "BelowMinimum")
         ELSE LpDepositMint(m,
                  [m EXCEPT !.lp_shares = Put(@, 0, Get0(@, 0) + MINIMUM_LIQUIDITY),
                            !.total_shares = @ + MINIMUM_LIQUIDITY],
                  user, amount, amount - MINIMUM_LIQUIDITY)
    ELSE LpDepositMint(m, m, user, amount,
                       MulDiv(amount, m.total_shares, m.pool_reserve))

\* lp_withdraw that takes the gross payout out of total_system_funds
lp_withdraw_gross(m, user) ==
    LET user_shares == Get0(m.lp_shares, user)
        gross_payout == MulDiv(user_shares, m.pool_reserve, m.total_shares)
        fee == MulDiv(gross_payout, LP_WITHDRAWAL_FEE_BPS, 10000)
    IN  IF user_shares = 0 THEN OpOut(m, "InsufficientShares")
        ELSE OpOut([m EXCEPT !.lp_shares = Remove(@, user),
                             !.total_shares = @ - user_shares,
                             !.pool_reserve = @ - gross_payout,
                             !.accumulated_fees = @ + fee,
                             !.total_system_funds = @ - gross_payout],
                   "Success")

\* lp_withdraw that leaves total_shares as it was
lp_withdraw_keeping_total(m, user) ==
    LET user_shares == Get0(m.lp_shares, user)
        gross_payout == MulDiv(user_shares, m.pool_reserve, m.total_shares)
        fee == MulDiv(gross_payout, LP_WITHDRAWAL_FEE_BPS, 10000)
    IN  IF user_shares = 0 THEN OpOut(m, "InsufficientShares")
        ELSE OpOut([m EXCEPT !.lp_shares = Remove(@, user),
                             !.pool_reserve = @ - gross_payout,
                             !.accumulated_fees = @ + fee,
                             !.total_system_funds = @ - (gross_payout - fee)],
                   "Success")

lp_withdraw(m, user) ==
    LET user_shares == Get0(m.lp_shares, user)
        shares_to_withdraw == user_shares
        gross_payout == MulDiv(shares_to_withdraw, m.pool_reserve, m.total_shares)
        fee == MulDiv(gross_payout, LP_WITHDRAWAL_FEE_BPS, 10000)
        net_payout == gross_payout - fee
    IN  IF user_shares = 0 THEN OpOut(m, "InsufficientShares")
        ELSE OpOut([m EXCEPT !.lp_shares = Remove(@, user),
                             !.total_shares = @ - shares_to_withdraw,
                             !.pool_reserve = @ - gross_payout,
                             !.accumulated_fees = @ + fee,
                             !.total_system_funds = @ - net_payout],
                   "Success")

\* AccountingModel::with_initial_liquidity(amount)
with_initial_liquidity(amount) ==
    IF amount > 0 THEN lp_deposit(NewModel, 0, amount).m ELSE NewModel

\* execute(op) with the outcome `out` of the operation
Execute(out) ==
    /\ am_operation_count' = am_operation_count + 1
    /\ am_user_balances' = out.m.user_balances
    /\ am_lp_shares' = out.m.lp_shares
    /\ am_total_shares' = out.m.total_shares
    /\ am_pool_reserve' = out.m.pool_reserve
    /\ am_total_system_funds' = out.m.total_system_funds
    /\ am_accumulated_fees' = out.m.accumulated_fees
    /\ UNCHANGED outsideModel

UserDeposit(user, amount) ==
    /\ am_operation_count < MaxOps
    /\ Execute(user_deposit(Model, user, amount))

UserWithdraw(user) ==
    /\ am_operation_count < MaxOps
    /\ Execute(user_withdraw(Model, user))

PlaceBet(user, amount, win, multiplier_bps) ==
    /\ am_operation_count < MaxOps
    /\ Execute(place_bet(Model, user, amount, win, multiplier_bps))

LPDeposit(user, amount) ==
    /\ am_operation_count < MaxOps
    /\ ~lp_deposit_panics(Model, user, amount)
    /\ Execute(lp_deposit(Model, user, amount))

LPWithdraw(user) ==
    /\ am_operation_count < MaxOps
    /\ Execute(lp_withdraw(Model, user))

\* The model a test starts from
ModelIs(m) ==
    /\ am_user_balances = m.user_balances
    /\ am_lp_shares = m.lp_shares
    /\ am_total_shares = m.total_shares
    /\ am_pool_reserve = m.pool_reserve
    /\ am_total_system_funds = m.total_system_funds
    /\ am_accumulated_fees = m.accumulated_fees
    /\ am_operation_count = 0

ModelUnused == ModelIs(NewModel)

\* ------------------------------------------- dice_backend/src/accounting.rs
\* The deposit of the accounting that preceded defi_accounting.  It keeps its
\* balances in USER_BALANCES_STABLE (`balances`) and its cache in
\* CACHED_CANISTER_BALANCE; casino_main's deposit is built the same way.

\* icrc1_transfer served for the canister as the caller of the ledger: the
\* sender is the caller's own account, here the custodian's, and the receiver
\* is Account { owner: ic_cdk::id() }, the custodian's again.  The sender is
\* debited amount + fee and the receiver credited amount, so the custodian's
\* balance falls by the fee; without amount + fee in the account, or for any
\* other reason, the ledger refuses.
ledger_icrc1_transfer(bal, amount, fee, exec) ==
    IF exec /\ bal >= amount + fee
    THEN [st |-> "applied", bal |-> (bal - (amount + fee)) + amount]
    ELSE [st |-> "refused", bal |-> bal]

\* deposit, to its await on icrc1_transfer
legacy_deposit(caller, amount) ==
    /\ IF amount < MIN_DEPOSIT
       THEN UNCHANGED <<tasks, quota>>
       ELSE /\ quota[caller].deposit > 0
            /\ HasFree
            /\ quota' = [quota EXCEPT ![caller].deposit = @ - 1]
            /\ tasks' = [tasks EXCEPT ![FreeSlot] =
                    [op |-> "legacy_deposit", caller |-> caller, amount |-> amount]]
    /\ UNCHANGED <<balances, pending, auditLog, processing, now, ledgerBalance,
                   ledgerTxs, lpShares, poolReserve, pendingFees, initiated, credited>>
    /\ UNCHANGED outsideAccounting

\* deposit, from the ledger's answer to its await on refresh_canister_balance,
\* or to its return if the transfer failed
legacy_deposit_transferred(i, exec, ans) ==
    /\ tasks[i].op = "legacy_deposit"
    /\ LET L == ledger_icrc1_transfer(ledgerBalance, tasks[i].amount,
                                      ICP_TRANSFER_FEE, exec)
           caller == tasks[i].caller
           amount == tasks[i].amount
           new_bal == balances[caller] + amount
       IN  /\ ans \in Answers(L.st)
           /\ ledgerBalance' = L.bal
           /\ IF ans.kind = "Ok"
              THEN /\ balances' = [balances EXCEPT ![caller] = new_bal]
                   /\ credited' = [credited EXCEPT ![caller] = @ + amount]
                   /\ tasks' = [tasks EXCEPT ![i] =
                            [op |-> "legacy_refresh", caller |-> caller,
                             amount |-> amount]]
              ELSE /\ UNCHANGED <<balances, credited>>
                   /\ tasks' = [tasks EXCEPT ![i] = Idle]
    /\ UNCHANGED <<pending, auditLog, processing, now, ledgerTxs,
                   lpShares, poolReserve, pendingFees, quota, initiated>>
    /\ UNCHANGED outsideAccounting

\* deposit, from the answer to icrc1_balance_of to its return
legacy_deposit_return(i, answered) ==
    /\ tasks[i].op = "legacy_refresh"
    /\ CACHED_CANISTER_BALANCE' =
            refresh_canister_balance(CACHED_CANISTER_BALANCE, ledgerBalance,
                                     answered).cache
    /\ tasks' = [tasks EXCEPT ![i] = Idle]
    /\ UNCHANGED <<balances, pending, auditLog, processing, now, ledgerBalance,
                   ledgerTxs, lpShares, poolReserve, pendingFees, quota,
                   initiated, credited>>
    /\ UNCHANGED <<swept, accrued>>
    /\ UNCHANGED outsideDefi

\* --------------------------------------------------------------------- spec
\* The canister after installation, nothing in flight
InstalledWith(lens) ==
    /\ texts = lens
    /\ balances = [u \in Users |-> 0]
    /\ pending = [u \in Users |-> NoPending]
    /\ auditLog = <<>>
    /\ processing = FALSE
    /\ now = 1
    /\ ledgerBalance = 0
    /\ ledgerTxs = <<>>
    /\ lpShares = [u \in Users \cup {Anonymous} |-> 0]
    /\ poolReserve = 0
    /\ pendingFees = 0
    /\ tasks = [i \in Slots |-> Idle]
    /\ initiated = <<>>
    /\ credited = [u \in Users |-> 0]
    /\ CACHED_CANISTER_BALANCE = 0
    /\ swept = 0
    /\ accrued = 0

Installed == InstalledWith(TextLens)

\* One principal using the user accounting
Init ==
    /\ Installed
    /\ ModelUnused
    /\ GameUnused
    /\ CasinoUnused
    /\ GuardInstalled
    /\ quota = [c \in Callers |->
                    IF c = "u1"
                    THEN [NoCalls EXCEPT !.deposit = MaxDeposits, !.withdraw = MaxWithdraws]
                    ELSE NoCalls]

\* Two principals providing liquidity
InitPool ==
    /\ Installed
    /\ ModelUnused
    /\ GameUnused
    /\ CasinoUnused
    /\ GuardInstalled
    /\ quota = [c \in Callers |->
                    IF c \in Users
                    THEN [NoCalls EXCEPT !.lp_deposit = MaxLpDeposits,
                                         !.lp_withdraw = MaxLpWithdraws]
                    ELSE NoCalls]

Next ==
    \/ \E u \in Users, a \in DepositAmounts : deposit(u, a)
    \/ \E i \in Slots, exec \in BOOLEAN, ans \in AllAnswers : deposit_return(i, exec, ans)
    \/ \E u \in Users : withdraw_all(u)
    \/ \E i \in Slots, exec \in BOOLEAN, ans \in AllAnswers : withdraw_all_return(i, exec, ans)
    \/ process_pending_withdrawals
    \/ \E i \in Slots, exec \in BOOLEAN, ans \in AllAnswers : scan_return(i, exec, ans)

NextPool ==
    \/ \E u \in Users, a \in LpDepositAmounts : deposit_liquidity(u, a)
    \/ \E i \in Slots, exec \in BOOLEAN, ans \in AllAnswers :
            deposit_liquidity_pulled(i, exec, ans)
    \/ \E i \in Slots, exec \in BOOLEAN, ans \in AllAnswers :
            deposit_liquidity_return(i, exec, ans)
    \/ \E u \in Users : withdraw_all_liquidity(u)
    \/ \E i \in Slots, exec \in BOOLEAN, ans \in AllAnswers :
            withdraw_liquidity_return(i, exec, ans)

Spec == Init /\ [][Next]_vars

SpecPool == InitPool /\ [][NextPool]_vars

\* The liquidity pool with its games: one provider, the anonymous principal
\* calling as well, and the game logic settling bets against the reserve
InitHouse ==
    /\ Installed
    /\ ModelUnused
    /\ GameUnused
    /\ CasinoUnused
    /\ GuardInstalled
    /\ quota = [c \in Callers |->
                    CASE c = "u1" -> [NoCalls EXCEPT !.lp_deposit = MaxHouseDeposits,
                                                     !.lp_withdraw = MaxLpWithdraws]
                      [] c = Anonymous -> [NoCalls EXCEPT !.lp_withdraw = MaxLpWithdraws]
                      [] c = GameLogic -> [NoCalls EXCEPT !.settle = MaxSettles]
                      [] OTHER -> NoCalls]

NextHouse ==
    \/ \E u \in Users, a \in LpDepositAmounts : deposit_liquidity(u, a)
    \/ \E i \in Slots, exec \in BOOLEAN, ans \in AllAnswers :
            deposit_liquidity_pulled(i, exec, ans)
    \/ \E i \in Slots, exec \in BOOLEAN, ans \in AllAnswers :
            deposit_liquidity_return(i, exec, ans)
    \/ \E c \in Users \cup {Anonymous} : withdraw_all_liquidity(c)
    \/ \E i \in Slots, exec \in BOOLEAN, ans \in AllAnswers :
            withdraw_liquidity_return(i, exec, ans)
    \/ \E payout \in WinPayouts(poolReserve) : update_pool_on_win(payout)
    \/ \E bet \in LostBets : update_pool_on_loss(bet)

SpecHouse == InitHouse /\ [][NextHouse]_vars

\* One principal using the user accounting beside one providing liquidity
InitBank ==
    /\ Installed
    /\ ModelUnused
    /\ GameUnused
    /\ CasinoUnused
    /\ GuardInstalled
    /\ quota = [c \in Callers |->
                    CASE c = "u1" -> [NoCalls EXCEPT !.deposit = MaxDeposits,
                                                     !.withdraw = MaxWithdraws]
                      [] c = "u2" -> [NoCalls EXCEPT !.lp_deposit = MaxLpDeposits]
                      [] OTHER -> NoCalls]

NextBank ==
    \/ \E u \in Users, a \in DepositAmounts : deposit(u, a)
    \/ \E i \in Slots, exec \in BOOLEAN, ans \in AllAnswers : deposit_return(i, exec, ans)
    \/ \E u \in Users : withdraw_all(u)
    \/ \E i \in Slots, exec \in BOOLEAN, ans \in AllAnswers : withdraw_all_return(i, exec, ans)
    \/ \E u \in Users, a \in LpDepositAmounts : deposit_liquidity(u, a)
    \/ \E i \in Slots, exec \in BOOLEAN, ans \in AllAnswers :
            deposit_liquidity_pulled(i, exec, ans)
    \/ \E i \in Slots, exec \in BOOLEAN, ans \in AllAnswers :
            deposit_liquidity_return(i, exec, ans)

SpecBank == InitBank /\ [][NextBank]_vars

\* A provider depositing and withdrawing, and the heartbeat sweeping the fees
\* owed to the parent
InitSweep ==
    /\ Installed
    /\ ModelUnused
    /\ GameUnused
    /\ CasinoUnused
    /\ GuardInstalled
    /\ quota = [c \in Callers |->
                    CASE c = "u1" -> [NoCalls EXCEPT !.lp_deposit = MaxLpDeposits,
                                                     !.lp_withdraw = MaxLpWithdraws]
                      [] c = Heartbeat -> [NoCalls EXCEPT !.sweep = MaxSweeps]
                      [] OTHER -> NoCalls]

NextSweep ==
    \/ \E u \in Users, a \in SweepDepositAmounts : deposit_liquidity(u, a)
    \/ \E i \in Slots, exec \in BOOLEAN, ans \in AllAnswers :
            deposit_liquidity_pulled(i, exec, ans)
    \/ \E i \in Slots, exec \in BOOLEAN, ans \in AllAnswers :
            deposit_liquidity_return(i, exec, ans)
    \/ \E u \in Users : withdraw_all_liquidity(u)
    \/ \E i \in Slots, exec \in BOOLEAN, ans \in AllAnswers :
            withdraw_liquidity_return(i, exec, ans)
    \/ reconcile_floating_funds
    \/ \E i \in Slots, answered \in BOOLEAN : reconcile_refreshed(i, answered)
    \/ \E i \in Slots, exec \in BOOLEAN, ans \in AllAnswers :
            reconcile_return(i, exec, ans)

SpecSweep == InitSweep /\ [][NextSweep]_vars

\* Two principals depositing with the earlier accounting.  The custodian's
\* ledger account holds the house's bankroll, which is sent to it on the
\* ledger directly (house_balance is the canister's balance less the deposits),
\* or nothing yet.
HouseFunds == {0, MIN_DEPOSIT + 3 * ICP_TRANSFER_FEE}

InitLegacy ==
    /\ texts = TextLens
    /\ balances = [u \in Users |-> 0]
    /\ pending = [u \in Users |-> NoPending]
    /\ auditLog = <<>>
    /\ processing = FALSE
    /\ now = 1
    /\ ledgerBalance \in HouseFunds
    /\ ledgerTxs = <<>>
    /\ lpShares = [u \in Users \cup {Anonymous} |-> 0]
    /\ poolReserve = 0
    /\ pendingFees = 0
    /\ tasks = [i \in Slots |-> Idle]
    /\ initiated = <<>>
    /\ credited = [u \in Users |-> 0]
    /\ CACHED_CANISTER_BALANCE = 0
    /\ swept = 0
    /\ accrued = 0
    /\ ModelUnused
    /\ GameUnused
    /\ CasinoUnused
    /\ GuardInstalled
    /\ quota = [c \in Callers |->
                    IF c \in Users THEN [NoCalls EXCEPT !.deposit = MaxDeposits]
                    ELSE NoCalls]

NextLegacy ==
    \/ \E u \in Users, a \in DepositAmounts : legacy_deposit(u, a)
    \/ \E i \in Slots, exec \in BOOLEAN, ans \in AllAnswers :
            legacy_deposit_transferred(i, exec, ans)
    \/ \E i \in Slots, answered \in BOOLEAN : legacy_deposit_return(i, answered)

SpecLegacy == InitLegacy /\ [][NextLegacy]_vars

\* One principal using the user accounting, the ledger unreachable at times
\* with a reject text of middling length
InitText ==
    /\ InstalledWith({TextMid})
    /\ ModelUnused
    /\ GameUnused
    /\ CasinoUnused
    /\ GuardInstalled
    /\ quota = [c \in Callers |->
                    IF c = "u1"
                    THEN [NoCalls EXCEPT !.deposit = MaxDeposits, !.withdraw = MaxWithdraws]
                    ELSE NoCalls]

NextText ==
    \/ \E u \in Users, a \in DepositAmounts : deposit(u, a)
    \/ \E i \in Slots, exec \in BOOLEAN, ans \in AllAnswers : deposit_return(i, exec, ans)
    \/ \E u \in Users : withdraw_all(u)
    \/ \E i \in Slots, exec \in BOOLEAN, ans \in AllAnswers : withdraw_all_return(i, exec, ans)

SpecText == InitText /\ [][NextText]_vars

\* ------------------------------------------------------------ get_audit_log
RECURSIVE Skip(_, _)
\* Iterator::skip
Skip(q, n) == IF n = 0 \/ q = <<>> THEN q ELSE Skip(Tail(q), n - 1)

\* get_audit_log that takes `limit` entries before it skips `start`
get_audit_log_taking_first(log, start, limit) == Skip(Take(log, limit), start)

\* get_audit_log: log.iter().skip(start).take(limit).collect()
get_audit_log(log, start, limit) == Take(Skip(log, start), limit)

\* The user accounting with the timer invoking the retry scan again and again
\* and every ledger call returning
SpecLive ==
    /\ Init
    /\ [][Next]_vars
    /\ WF_vars(process_pending_withdrawals)
    /\ WF_vars(\E i \in Slots, exec \in BOOLEAN, ans \in AllAnswers : scan_return(i, exec, ans))
    /\ WF_vars(\E i \in Slots, exec \in BOOLEAN, ans \in AllAnswers :
                    withdraw_all_return(i, exec, ans))
    /\ WF_vars(\E i \in Slots, exec \in BOOLEAN, ans \in AllAnswers :
                    deposit_return(i, exec, ans))

\* Nothing but the guard in use
NoQuota == quota = [c \in Callers |-> NoCalls]

InitGuard ==
    /\ Installed
    /\ ModelUnused
    /\ GameUnused
    /\ CasinoUnused
    /\ NoQuota
    /\ GuardInstalled

NextGuard ==
    \/ \E i \in GuardSlots, c \in GuardCallers : guard_new(i, c)
    \/ \E i \in GuardSlots : guard_drop(i)

SpecGuard == InitGuard /\ [][NextGuard]_vars

\* One principal using casino_main
InitCasino ==
    /\ Installed
    /\ ModelUnused
    /\ NoQuota
    /\ GuardInstalled
    /\ GameUnused
    /\ CasinoInstalled
    /\ casinoQuota = [u \in CasinoUsers |->
                        [deposit |-> MaxCasinoDeposits, withdraw |-> MaxCasinoWithdraws,
                         play |-> MaxPlays]]

NextCasino ==
    \/ \E u \in CasinoUsers, a \in CasinoDepositAmounts : casino_deposit(u, a)
    \/ \E i \in CasinoSlots, ans \in CallAnswers : casino_deposit_return(i, ans)
    \/ \E u \in CasinoUsers, a \in CasinoWithdrawAmounts : casino_withdraw(u, a)
    \/ \E i \in CasinoSlots, exec \in BOOLEAN, ans \in CallAnswers :
            casino_withdraw_return(i, exec, ans)
    \/ \E u \in CasinoUsers, b \in BetAmounts : play_dice(u, b)
    \/ \E u \in CasinoUsers, b \in BetAmounts : play_plinko(u, b)
    \/ \E i \in CasinoSlots, ans \in CallAnswers, payout \in {0, 2 * MIN_BET} :
            play_return(i, ans, payout)

SpecCasino == InitCasino /\ [][NextCasino]_vars

\* A ConcurrentGameModel set up as the tests set it up
InitGame ==
    /\ Installed
    /\ ModelUnused
    /\ NoQuota
    /\ GuardInstalled
    /\ CasinoUnused
    /\ \E args \in GameSetups : GameSetUp(args)

NextGame ==
    \/ \E c \in GameCallers, b \in GameBets, t \in TargetMultipliers : start_game(c, b, t)
    \/ \E idx \in 1..MaxGames, r \in Randoms : resume_game(idx, r)

SpecGame == InitGame /\ [][NextGame]_vars

\* An AccountingModel as the stress tests create it
InitModel ==
    /\ Installed
    /\ NoQuota
    /\ GuardInstalled
    /\ CasinoUnused
    /\ GameUnused
    /\ \E amount \in InitialLiquidity : ModelIs(with_initial_liquidity(amount))

NextModel ==
    \/ \E u \in ModelUsers, a \in ModelDepositAmounts : UserDeposit(u, a)
    \/ \E u \in ModelUsers : UserWithdraw(u)
    \/ \E u \in ModelUsers, a \in ModelBetAmounts, win \in BOOLEAN, mult \in MultipliersBps :
            PlaceBet(u, a, win, mult)
    \/ \E u \in ModelUsers, a \in ModelLpAmounts : LPDeposit(u, a)
    \/ \E u \in ModelUsers : LPWithdraw(u)

SpecModel == InitModel /\ [][NextModel]_vars

\* ------------------------------------------------------------------- claims
RECURSIVE SumOver(_, _)
SumOver(f, S) ==
    IF S = {} THEN 0
    ELSE LET u == CHOOSE x \in S : TRUE IN f[u] + SumOver(f, S \ {u})

\* The ledger executed the transfer of withdrawal `wid`
Executed(wid) == \E k \in DOMAIN ledgerTxs : ledgerTxs[k].wid = wid

RECURSIVE PaidIn(_, _)
PaidIn(txs, u) ==
    IF txs = <<>> THEN 0
    ELSE (IF Head(txs).to = u THEN Head(txs).amount ELSE 0) + PaidIn(Tail(txs), u)

\* What the ledger has paid out to u for withdrawals
PaidOut(u) == PaidIn(ledgerTxs, u)

\* The amount of u's pending record, unless the ledger already paid it
UnpaidPending(u) ==
    IF pending[u].kind # "None" /\ ~Executed(pending[u].wid)
    THEN get_withdrawal_amount(pending[u]) ELSE 0

DefiniteAnswers == {a \in AllAnswers : attempt_transfer(a).kind = "Definite"}
UncertainAnswers == {a \in AllAnswers : attempt_transfer(a).kind = "Uncertain"}

\* C1: solvency.  After every turn the custodian's ledger balance covers the
\* user balances, the pool reserve, the pending withdrawals and the fees owed
\* to the parent.  A pending withdrawal the ledger has already paid is not
\* counted against the balance it has left.
C1_Solvency ==
    ledgerBalance >= SumOver(balances, Users) + poolReserve
                     + SumOver([u \in Users |-> UnpaidPending(u)], Users) + pendingFees

\* C2: no second withdrawal while one is pending.  A turn that initiates a
\* withdrawal for a principal is taken only when that principal has no pending
\* record, so an existing record is never replaced.
C2_NoSecondInitiation ==
    [][Len(initiated') > Len(initiated)
         => pending[initiated'[Len(initiated')].user].kind = "None"]_vars

\* C3: uncertain-retry idempotency.  A principal never holds both the external
\* payment of a withdrawal and the restored internal balance: balance plus
\* what the ledger paid out never exceeds what deposits credited.
C3_NeverPaidAndRestored ==
    \A u \in Users : balances[u] + PaidOut(u) <= credited[u]

\* C4: initiation is atomic with the debit, so every debited amount of an
\* unresolved withdrawal is matched by a pending record: balance, unpaid
\* pending amount and payments account for everything deposits credited.
C4_DebitMatched ==
    \A u \in Users : balances[u] + UnpaidPending(u) + PaidOut(u) >= credited[u]

C6_DefiniteRollback ==
    [][\A i \in Slots : (tasks[i].op = "withdraw_all" /\ tasks'[i] = Idle) =>
          \A exec \in BOOLEAN, ans \in DefiniteAnswers :
             withdraw_all_return(i, exec, ans) =>
                LET u == tasks[i].caller
                    a == tasks[i].amount
                IN  /\ ~execute_withdrawal(State, u, a, ans).trap
                    /\ balances'[u] = balances[u] + a
                    /\ pending'[u].kind = "None"
                    /\ \E j, k \in DOMAIN auditLog' :
                          /\ j < k
                          /\ auditLog'[j] = AuditEntry("WithdrawalInitiated", u, a, 17)
                          /\ auditLog'[k].event_type = "BalanceRestored"
                          /\ auditLog'[k].user = u
                          /\ auditLog'[k].amount = a]_vars

\* C7: uncertain outcome of withdraw_all's transfer (SysTransient, Unknown).
\* The turn that receives it keeps the pending record with its created_at,
\* records last_error in it, leaves the balance debited and returns the
\* "check status later" error instead of trapping.
C7_UncertainPreserves ==
    [][\A i \in Slots : (tasks[i].op = "withdraw_all" /\ tasks'[i] = Idle) =>
          \A exec \in BOOLEAN, ans \in UncertainAnswers :
             withdraw_all_return(i, exec, ans) =>
                LET u == tasks[i].caller IN
                pending[u].kind # "None" =>
                    /\ ~execute_withdrawal(State, u, tasks[i].amount, ans).trap
                    /\ pending'[u].kind # "None"
                    /\ pending'[u].created_at = pending[u].created_at
                    /\ pending'[u].last_error # 0
                    /\ balances'[u] = balances[u]]_vars

\* C8: expiration.  retries of a record never decreases and never exceeds
\* MAX_RETRIES, and the turn of the scan that receives an uncertain rejection
\* of a retry leaves the record with retries one higher.
C8_RetriesCounted ==
    [][/\ \A u \in Users :
             (pending[u].kind # "None" /\ pending'[u].kind # "None"
              /\ pending'[u].wid = pending[u].wid) =>
                 /\ pending'[u].retries >= pending[u].retries
                 /\ pending'[u].retries <= MAX_RETRIES
       /\ \A i \in Slots : (tasks[i].op = "scan" /\ tasks'[i] # tasks[i]) =>
             \A exec \in BOOLEAN, ans \in UncertainAnswers :
                scan_return(i, exec, ans) =>
                   LET e == Head(tasks[i].queue) IN
                   (pending[e.user].kind # "None" /\ pending[e.user].wid = e.rec.wid) =>
                       /\ pending'[e.user].kind # "None"
                       /\ pending'[e.user].retries = pending[e.user].retries + 1]_vars

\* C9: the scan is not reentrant: at most one invocation is suspended between
\* setting and clearing PROCESSING, and PROCESSING is true only while one is.
C9_ProcessingFlag ==
    /\ Cardinality({i \in Slots : tasks[i].op = "scan"}) <= 1
    /\ processing <=> \E i \in Slots : tasks[i].op = "scan"

\* C10: an LP withdrawal suspended at its ledger call has its shares and
\* payout deducted and a pending LP record of the caller for that payout.
C10_LpPendingRecord ==
    \A i \in Slots : tasks[i].op = "withdraw_liquidity" =>
        /\ pending[tasks[i].caller].kind = "LP"
        /\ get_withdrawal_amount(pending[tasks[i].caller]) = tasks[i].payout

CallerOps == {"deposit", "withdraw_all", "deposit_liquidity", "deposit_fee",
              "withdraw_liquidity"}

\* C12: a mutating operation of a principal is never accepted while an
\* earlier mutating operation of the same principal is suspended at an
\* external call: no two suspended operations have the same caller.
C12_OnePerCaller ==
    \A i, j \in Slots :
        (i # j /\ tasks[i].op \in CallerOps /\ tasks[j].op \in CallerOps)
            => tasks[i].caller # tasks[j].caller

\* The suspended calls of kind `op` of principal u in casino_main
CasinoCalls(u, op) ==
    {i \in CasinoSlots : casinoTasks[i].op = op /\ casinoTasks[i].caller = u}

\* C13: of the play_dice / play_plinko calls a principal has started before
\* any game result returns, exactly one is accepted: no two plays of one
\* principal are suspended at the game canister at the same time.
C13_OnePlayAccepted ==
    \A u \in CasinoUsers : Cardinality(CasinoCalls(u, "play")) <= 1

\* C14: the balance play_dice / play_plinko write on resumption is the
\* balance stored at resumption plus the payout (plus the bet on rollback),
\* so a deposit credited during the suspension stays in the balance.
C14_SettleOnStoredBalance ==
    [][\A i \in CasinoSlots, ans \in CallAnswers, payout \in {0, 2 * MIN_BET} :
          (casinoTasks[i].op = "play" /\ play_return(i, ans, payout)) =>
              USER_ACCOUNTS'[casinoTasks[i].caller].balance =
                  USER_ACCOUNTS[casinoTasks[i].caller].balance
                  + (IF ans = "Ok" THEN payout ELSE casinoTasks[i].bet_amount)]_vars

\* C15: once a principal's calls have all returned, the internal balance is
\* at most the deposits credited, minus the withdrawals the ledger executed,
\* plus the payouts minus the bets of the settled plays.
C15_NoPhantomBalance ==
    \A u \in CasinoUsers :
        (/\ USER_ACCOUNTS[u] # NoAccount
         /\ \A i \in CasinoSlots : casinoTasks[i] = CasinoIdle)
            => USER_ACCOUNTS[u].balance
                   <= casinoHist[u].deposited - casinoHist[u].paid + casinoHist[u].wager_net

\* C16: the account of a principal stays locked for as long as a play of the
\* principal is suspended, and no withdraw and no second play of the
\* principal is accepted during that time.
C16_LockedWhileSuspended ==
    /\ [](\A u \in CasinoUsers :
            CasinoCalls(u, "play") # {} => USER_ACCOUNTS[u].is_locked)
    /\ [][\A u \in CasinoUsers :
            CasinoCalls(u, "play") # {} =>
                /\ CasinoCalls(u, "play")' \subseteq CasinoCalls(u, "play")
                /\ CasinoCalls(u, "withdraw")' \subseteq CasinoCalls(u, "withdraw")]_vars

RECURSIVE SumField(_, _, _)
\* The sum of seq[k][field] over the entries of caller c
SumField(seq, field, c) ==
    IF seq = <<>> THEN 0
    ELSE (IF Head(seq).caller = c THEN Head(seq)[field] ELSE 0)
         + SumField(Tail(seq), field, c)

\* C17: the user balances and the pool reserve of ConcurrentGameModel always
\* add up to total_system_funds.
C17_FundsConserved ==
    SumOver(user_balances, DOMAIN user_balances) + pool_reserve = total_system_funds

\* C18: once every started game of a caller has been resumed, the caller's
\* balance is the initial balance minus the bets plus the payouts of the
\* completed games.
C18_NoStaleOverwrite ==
    suspended_messages = <<>> =>
        BalanceOf(user_balances, gameSetup.user) =
            gameSetup.balance
            - SumField(completed_games, "bet_amount", gameSetup.user)
            + SumField(completed_games, "payout", gameSetup.user)

\* C19: the bets of a caller's games that are started and not yet resumed
\* never add up to more than the caller's balance.
C19_NoOverCommitment ==
    \A c \in GameCallers :
        SumField(suspended_messages, "bet_amount", c) <= BalanceOf(user_balances, c)

\* C20: initially and after every operation of AccountingModel,
\* pool_reserve + the sum of the user balances + accumulated_fees equals
\* total_system_funds.
C20_CoreInvariant ==
    am_pool_reserve + SumOver(am_user_balances, DOMAIN am_user_balances)
        + am_accumulated_fees = am_total_system_funds

\* C20 witness: a user holds what a bet won at half the stake left of a
\* deposit (the other half went to the pool), and an LP withdrawal has
\* left a fee
C20_Witness ==
    /\ am_operation_count >= 3
    /\ \E u \in DOMAIN am_user_balances : am_user_balances[u] % MODEL_MIN_BET # 0
    /\ am_accumulated_fees > 0

\* C21: share conservation.  After every operation of the AccountingModel the
\* shares of all holders, those burned to holder 0 included, add up to
\* total_shares.
C21_ShareConservation ==
    SumShares(am_lp_shares, DOMAIN am_lp_shares) = am_total_shares

\* C21's case: a bet was settled, a liquidity withdrawal charged its fee, and
\* a holder other than 0 holds shares.
C21_Witness ==
    /\ am_operation_count >= 4
    /\ am_accumulated_fees > 0
    /\ \E u \in DOMAIN am_user_balances : am_user_balances[u] % MODEL_MIN_BET # 0
    /\ \E u \in DOMAIN am_lp_shares \ {0} : am_lp_shares[u] > 0

\* C22: the burned minimum liquidity is permanent.  Once the anonymous
\* principal holds MINIMUM_LIQUIDITY shares it holds at least that many in every
\* later state, whoever calls deposit_liquidity or withdraw_all_liquidity.
C22_BurnPermanent ==
    [][lpShares[Anonymous] >= MINIMUM_LIQUIDITY
       => lpShares'[Anonymous] >= MINIMUM_LIQUIDITY]_vars

\* C23: share minting.  The turn that ends a deposit_liquidity call of
\* `amount` adds d = amount - amount / 100 to the reserve.  With no shares
\* outstanding it gives MINIMUM_LIQUIDITY shares to the anonymous principal and
\* d - MINIMUM_LIQUIDITY to the depositor; otherwise it gives the depositor
\* floor(d * total_shares / reserve) of the shares and the reserve stored when
\* that turn starts, and nobody else anything.
C23_ShareMinting ==
    [][\A i \in Slots :
          (tasks[i].op = "deposit_fee" /\ tasks'[i] = Idle) =>
              LET caller == tasks[i].caller
                  d == tasks[i].amount - tasks[i].amount \div 100
                  total_shares == calculate_total_supply(lpShares)
              IN  IF total_shares = 0
                  THEN /\ lpShares' = [lpShares EXCEPT
                                          ![Anonymous] = MINIMUM_LIQUIDITY,
                                          ![caller] = @ + d - MINIMUM_LIQUIDITY]
                       /\ poolReserve' = poolReserve + d
                  ELSE \/ poolReserve = 0
                       \/ /\ lpShares' = [lpShares EXCEPT ![caller] =
                                             @ + MulDiv(d, total_shares, poolReserve)]
                          /\ poolReserve' = poolReserve + d]_vars

\* C23's case: both deposits of the provider are minted, and the second was
\* minted while a share was not worth one e8s, so its shares are a rounded
\* quotient.
C23_Witness ==
    /\ quota["u1"].lp_deposit = 0
    /\ \A i \in Slots : tasks[i] = Idle
    /\ lpShares[Anonymous] = MINIMUM_LIQUIDITY
    /\ lpShares["u1"] % MINIMUM_LIQUIDITY # 0

\* C24: a rejected liquidity deposit changes nothing.  An lp_deposit that
\* returns BelowMinimum, for a first deposit below MINIMUM_LIQUIDITY or for a
\* deposit that would mint no shares, leaves every holder's shares, holder 0's
\* included, total_shares and the reserve as they were.
C24_RejectedDepositNoChange ==
    [][\A u \in ModelUsers, a \in ModelLpAmounts :
          (LPDeposit(u, a) /\ lp_deposit(Model, u, a).res = "BelowMinimum")
              => UNCHANGED <<am_lp_shares, am_total_shares, am_pool_reserve>>]_vars

\* C25: liquidity withdrawal.  The turn that starts the transfer of a
\* withdrawal of s shares takes gross = floor(s * reserve / total_shares) out of
\* the reserve and sends the provider gross less the fee of 1%.
C25_WithdrawalMath ==
    [][\A i \in Slots :
          (tasks[i] = Idle /\ tasks'[i].op = "withdraw_liquidity") =>
              LET caller == tasks'[i].caller
                  s == lpShares[caller] - lpShares'[caller]
                  gross == MulDiv(s, poolReserve, calculate_total_supply(lpShares))
                  fee == gross \div 100
                  sent == tasks'[i].req.amount - TRANSFER_TO_USER_FEE
              IN  /\ poolReserve' = poolReserve - gross
                  /\ sent = gross - fee]_vars

\* C26: the reserve never underflows.  update_pool_on_win(payout) leaves the
\* reserve as it is when the payout exceeds it, and takes exactly the payout
\* out of it otherwise; update_pool_on_loss(bet) adds exactly the bet; the
\* reserve is never negative.
C26_ReserveNoUnderflow ==
    /\ [](poolReserve >= 0)
    /\ [][/\ \A payout \in WinPayouts(poolReserve) :
                update_pool_on_win(payout) =>
                    poolReserve' = IF payout > poolReserve THEN poolReserve
                                   ELSE poolReserve - payout
          /\ \A bet \in LostBets :
                update_pool_on_loss(bet) => poolReserve' = poolReserve + bet]_vars

\* C26's case: after one deposit of 1 ICP the game logic has settled twice and
\* the reserve is down by one payout of 0.01 ICP: one win was paid and one
\* payout above the reserve trapped.
C26_Witness ==
    /\ quota[GameLogic].settle = 0
    /\ quota["u1"].lp_deposit = MaxHouseDeposits - 1
    /\ lpShares["u1"] = 98999000
    /\ poolReserve = 98000000

\* What withdraw_all_liquidity, called by `caller` with the shares `sh` and the
\* reserve `reserve` stored, pays
RoundTripPaid(sh, reserve, caller) == withdraw_liquidity_check(sh, reserve, caller).payout

\* C27 as stated: a round trip pays at most what was deposited.  Whatever the
\* pool holds and whatever the depositor held, a withdraw_all_liquidity that
\* follows at once the turn ending a deposit_liquidity(amount) of the same
\* principal pays at most `amount` and leaves the reserve no smaller than it
\* was before the deposit.
C27_RoundTripAnyState ==
    [][\A i \in Slots :
          (tasks[i].op = "deposit_fee" /\ tasks'[i] = Idle
           /\ poolReserve' # poolReserve) =>
              LET paid == RoundTripPaid(lpShares', poolReserve', tasks[i].caller)
              IN  /\ paid <= tasks[i].amount
                  /\ poolReserve' - paid >= poolReserve]_vars

\* C27, amended: the same for a principal that held no shares before the
\* deposit, into a pool whose reserve, if it holds any, belongs to shares
\* outstanding.
C27_RoundTrip ==
    [][\A i \in Slots :
          (tasks[i].op = "deposit_fee" /\ tasks'[i] = Idle
           /\ poolReserve' # poolReserve
           /\ lpShares[tasks[i].caller] = 0
           /\ (calculate_total_supply(lpShares) = 0 => poolReserve = 0)) =>
              LET paid == RoundTripPaid(lpShares', poolReserve', tasks[i].caller)
              IN  /\ paid <= tasks[i].amount
                  /\ poolReserve' - paid >= poolReserve]_vars

\* C27's case: the provider, having left the pool, deposited again after a
\* lost bet had raised the worth of the shares still outstanding, and holds the
\* few shares that deposit bought.
C27_Witness ==
    /\ \A i \in Slots : tasks[i] = Idle
    /\ quota["u1"].lp_deposit = 0
    /\ quota["u1"].lp_withdraw = 0
    /\ lpShares["u1"] > 0
    /\ lpShares["u1"] < 1000000

\* C28: a deposit by a principal with no balance and no pending record credits
\* the amount less the ledger fee; a withdraw_all takes the whole balance into
\* a pending record; and when a principal's one deposit is followed by a
\* withdraw_all that succeeds, the call returns all that the deposit credited
\* and leaves the balance 0 and no pending record.  None of these turns
\* changes the pool reserve, the fees owed to the parent or a share balance.
C28_UserRoundTrip ==
    [][\A i \in Slots :
          /\ (tasks[i].op = "deposit" /\ tasks'[i] = Idle
              /\ credited'[tasks[i].caller] # credited[tasks[i].caller]
              /\ balances[tasks[i].caller] = 0
              /\ pending[tasks[i].caller] = NoPending) =>
                 /\ balances'[tasks[i].caller] = tasks[i].amount - ICP_TRANSFER_FEE
                 /\ balances'[tasks[i].caller] >= MIN_WITHDRAW
                 /\ pending'[tasks[i].caller] = NoPending
                 /\ UNCHANGED <<lpShares, poolReserve, pendingFees>>
          /\ (tasks[i] = Idle /\ tasks'[i].op = "withdraw_all") =>
                 /\ tasks'[i].amount = balances[tasks'[i].caller]
                 /\ balances'[tasks'[i].caller] = 0
                 /\ pending'[tasks'[i].caller].kind = "User"
                 /\ pending'[tasks'[i].caller].amount = tasks'[i].amount
                 /\ UNCHANGED <<lpShares, poolReserve, pendingFees>>
          /\ (tasks[i].op = "withdraw_all" /\ tasks'[i] = Idle
              /\ Len(auditLog') = Len(auditLog) + 1
              /\ auditLog'[Len(auditLog')].event_type = "WithdrawalCompleted"
              /\ quota[tasks[i].caller].deposit = MaxDeposits - 1
              /\ Len(initiated) = 1
              /\ \A j \in Slots \ {i} : tasks[j] = Idle \/ tasks[j].caller # tasks[i].caller) =>
                 /\ auditLog'[Len(auditLog')].amount = credited[tasks[i].caller]
                 /\ balances'[tasks[i].caller] = 0
                 /\ pending'[tasks[i].caller] = NoPending
                 /\ UNCHANGED <<lpShares, poolReserve, pendingFees>>]_vars

\* C28's case: the round trip of a minimum deposit plus the fee is over, beside
\* a pool that holds a provider's deposit.
C28_Witness ==
    /\ quota["u1"].deposit = MaxDeposits - 1
    /\ credited["u1"] = MIN_DEPOSIT
    /\ Len(initiated) = 1
    /\ Len(auditLog) = 2
    /\ auditLog[2].event_type = "WithdrawalCompleted"
    /\ auditLog[2].amount = MIN_DEPOSIT
    /\ balances["u1"] = 0
    /\ pending["u1"] = NoPending
    /\ poolReserve > 0

\* C29: a casino_main call that returns at a validation or resource check,
\* starting nothing, leaves the accounts and the records as they were.
C29_FailedCallNoChange ==
    [][casinoTasks' = casinoTasks =>
          /\ USER_ACCOUNTS' = USER_ACCOUNTS
          /\ casinoHist' = casinoHist]_vars

\* C30: a sweep goes on to the ledger only when the fees owed to the parent
\* are at least RECONCILIATION_THRESHOLD; what it sends is the smaller of the
\* fees it read and a tenth of the balance refresh_canister_balance returned,
\* and at least the threshold; when the transfer succeeds the fees owed fall
\* by exactly what was sent, and otherwise they stay; no turn of a sweep
\* changes a user balance, the reserve or a share balance.
C30_SweepBounds ==
    [][\A i \in Slots :
          /\ (tasks[i] = Idle /\ tasks'[i].op = "reconcile") =>
                 /\ pendingFees >= RECONCILIATION_THRESHOLD
                 /\ UNCHANGED <<pendingFees, balances, poolReserve, lpShares>>
          /\ (tasks[i].op = "reconcile" /\ tasks'[i] # tasks[i]) =>
                 /\ tasks'[i] # Idle =>
                        /\ tasks'[i].amount >= RECONCILIATION_THRESHOLD
                        /\ tasks'[i].amount <= tasks[i].pending_fees
                        /\ tasks'[i].amount <= CACHED_CANISTER_BALANCE' \div RECONCILIATION_PARTS
                        /\ \/ tasks'[i].amount = tasks[i].pending_fees
                           \/ tasks'[i].amount = CACHED_CANISTER_BALANCE' \div RECONCILIATION_PARTS
                 /\ UNCHANGED <<pendingFees, balances, poolReserve, lpShares>>
          /\ (tasks[i].op = "reconcile_transfer" /\ tasks'[i] = Idle) =>
                 /\ swept' # swept => pendingFees' = pendingFees - tasks[i].amount
                 /\ swept' = swept => pendingFees' = pendingFees
                 /\ UNCHANGED <<balances, poolReserve, lpShares>>]_vars

\* C31: the sweeps have never sent the parent more, in all, than has been
\* added to the fees owed to it.
C31_OnlyTrackedFeesSwept == swept <= accrued

\* C32: verify_reserves reports is_solvent only when casino_main's ledger
\* account covers the sum of the user balances.
C32_SolventOnlyIfCovered ==
    verify_reserves.is_solvent =>
        SumCustody(casinoHist, CasinoUsers) >= verify_reserves.total_user_balances

\* C33: the details of every audit entry and the last_error of every pending
\* record are at most 256 characters long.
C33_StoredStringsBounded ==
    /\ \A k \in 1..Len(auditLog) : auditLog[k].details <= SANITIZED_LEN
    /\ \A u \in Users :
          pending[u].kind # "None" => pending[u].last_error <= SANITIZED_LEN

\* C34: no step removes or alters an entry of the audit log, what a step adds
\* comes after the entries there were, and get_audit_log(start, limit) returns
\* the entries with the (zero-based) indices start .. start+limit-1 in order,
\* fewer where the log ends.
C34_AuditLogAppendOnly ==
    /\ [](\A start \in 0..(Len(auditLog) + 1), limit \in 0..MaxLimit :
            LET got == get_audit_log(auditLog, start, limit)
                left == IF start >= Len(auditLog) THEN 0 ELSE Len(auditLog) - start
            IN  /\ Len(got) = (IF limit <= left THEN limit ELSE left)
                /\ \A k \in 1..Len(got) : got[k] = auditLog[start + k])
    /\ [][/\ Len(auditLog') >= Len(auditLog)
          /\ \A k \in 1..Len(auditLog) : auditLog'[k] = auditLog[k]]_vars

\* C34's case: the log holds more entries than a query asks for, so that a
\* query from its second entry stops before its end.
C34_Witness ==
    /\ Len(auditLog) > MaxLimit + 1
    /\ Len(get_audit_log(auditLog, 1, MaxLimit)) = MaxLimit
    /\ get_audit_log(auditLog, 1, MaxLimit)[1] = auditLog[2]

\* C35: a returning withdraw_liquidity either leaves the reserve and the
\* shares as they are stored (the transfer succeeded), or adds the payout to
\* the reserve stored now and the burned shares to the caller's shares stored
\* now.
C35_RollbackOnCurrentState ==
    [][\A i \in Slots :
          (tasks[i].op = "withdraw_liquidity" /\ tasks'[i] = Idle) =>
              \/ /\ poolReserve' = poolReserve
                 /\ lpShares' = lpShares
              \/ /\ poolReserve' = poolReserve + tasks[i].payout
                 /\ lpShares' = [lpShares EXCEPT ![tasks[i].caller] =
                                                   @ + tasks[i].user_shares]]_vars

\* The outcomes of the operations a test may execute next that do not panic
ModelOutcomes ==
    {user_deposit(Model, u, a) : u \in ModelUsers, a \in ModelDepositAmounts}
    \cup {user_withdraw(Model, u) : u \in ModelUsers}
    \cup {place_bet(Model, u, a, win, mult) :
              u \in ModelUsers, a \in ModelBetAmounts, win \in BOOLEAN,
              mult \in MultipliersBps}
    \cup {lp_deposit(Model, u, a) :
              u \in ModelUsers,
              a \in {x \in ModelLpAmounts : ~lp_deposit_panics(Model, 0, x)}}
    \cup {lp_withdraw(Model, u) : u \in ModelUsers}

\* The balances, shares and totals of m1 are those of m2
SameFunds(m1, m2) ==
    /\ \A u \in ModelUsers :
          /\ Get0(m1.user_balances, u) = Get0(m2.user_balances, u)
          /\ Get0(m1.lp_shares, u) = Get0(m2.lp_shares, u)
    /\ m1.total_shares = m2.total_shares
    /\ m1.pool_reserve = m2.pool_reserve
    /\ m1.accumulated_fees = m2.accumulated_fees
    /\ m1.total_system_funds = m2.total_system_funds

\* C36: in every state of the AccountingModel, no operation panics, and an
\* operation that returns anything but Success leaves the balances, the
\* shares, total_shares, pool_reserve, accumulated_fees and
\* total_system_funds as they are.
C36_FailedOpsChangeNothing ==
    /\ \A u \in ModelUsers, a \in ModelLpAmounts : ~lp_deposit_panics(Model, u, a)
    /\ \A out \in ModelOutcomes : out.res # "Success" => SameFunds(out.m, Model)

\* C37: when the retry scan resumes for a snapshot entry whose record is no
\* longer the one stored for the principal (removed, or replaced by a newer
\* withdrawal), it leaves the principal's record and balance as they are
\* stored; and the entry it goes on to retry is the record stored for its
\* principal.
C37_NoStaleSnapshot ==
    [][\A i \in Slots :
          (tasks[i].op = "scan" /\ tasks'[i] # tasks[i]) =>
              LET entry == Head(tasks[i].queue)
                  user == entry.user
                  stale == \/ pending[user] = NoPending
                           \/ pending[user].wid # entry.rec.wid
              IN  /\ stale => /\ pending'[user] = pending[user]
                              /\ balances'[user] = balances[user]
                  /\ tasks'[i].op = "scan" =>
                        LET next == Head(tasks'[i].queue)
                        IN  /\ pending'[next.user] # NoPending
                            /\ pending'[next.user].wid = next.rec.wid]_vars

\* C38: a pending withdrawal record is eventually removed.
C38_EventuallyResolved ==
    \A u \in Users : (pending[u] # NoPending) ~> (pending[u] = NoPending)

\* C39: whenever deposit credits the caller's balance, the custodian's balance
\* on the ledger has risen by at least the amount credited; and with deposits
\* only, the balances together never exceed the custodian's ledger balance.
C39_DepositBackedByInflow ==
    /\ [](SumOver(balances, Users) <= ledgerBalance)
    /\ [][\A u \in Users :
              balances'[u] > balances[u] =>
                  ledgerBalance' - ledgerBalance >= balances'[u] - balances[u]]_vars

\* a * b >= c * d, the products compared as quotient and remainder by 10^9
ProductGeq(a, b, c, d) ==
    LET x == MulDivQR([q |-> 0, r |-> 0], 2^30, a, b, 10^9)
        y == MulDivQR([q |-> 0, r |-> 0], 2^30, c, d, 10^9)
    IN  x.q > y.q \/ (x.q = y.q /\ x.r >= y.r)

\* C40: the step of deposit_liquidity that mints and the step of
\* withdraw_liquidity that burns never dilute the holders that remain: with
\* shares in circulation before and after it, reserve_after * total_shares_before
\* is at least reserve_before * total_shares_after.
C40_NoDilution ==
    [][LET minted == \E i \in Slots : tasks[i].op = "deposit_fee" /\ tasks'[i] = Idle
           burned == \E i \in Slots : /\ tasks[i] = Idle
                                      /\ tasks'[i].op = "withdraw_liquidity"
           before == calculate_total_supply(lpShares)
           after == calculate_total_supply(lpShares')
       IN  ((minted \/ burned) /\ before > 0 /\ after > 0) =>
               ProductGeq(poolReserve', before, poolReserve, after)]_vars

\* C40's case: the provider has deposited twice and burned its shares once,
\* shares are in circulation, and a share is not worth one e8s, so that the
\* shares minted and the payout were rounded quotients.
C40_Witness ==
    /\ quota["u1"].lp_deposit = 0
    /\ quota["u1"].lp_withdraw = 0
    /\ \A i \in Slots : tasks[i] = Idle
    /\ lpShares[Anonymous] = MINIMUM_LIQUIDITY
    /\ lpShares["u1"] > 0
    /\ poolReserve > 0
    /\ poolReserve # calculate_total_supply(lpShares)
    /\ calculate_total_supply(lpShares) % poolReserve # 0

====
